---- MODULE Spec2Model ----
(***************************************************************************)
(* Verification model of the diive quality-control pipeline:               *)
(*   - StepwiseMeteoScreeningDb  (pkgs/qaqc/meteoscreening.py)             *)
(*   - LocalOutlierFactorAllData / LocalOutlierFactorDaytimeNighttime      *)
(*     (pkgs/outlierdetection/lof.py)                                      *)
(*   - AbsoluteLimits / AbsoluteLimitsDaytimeNighttime                     *)
(*     (pkgs/outlierdetection/absolutelimits.py)                           *)
(*   - NEPpenalty (pkgs/flux/nep_penalty.py)                               *)
(*   - FluxQualityFlagsEddyPro                                             *)
(*     (pkgs/fluxprocessingchain/level2_qualityflags.py)                   *)
(*                                                                         *)
(* A time series is a function from its timestamp index to a value; the    *)
(* missing value (np.nan) is the sentinel NaN.  The specifications share   *)
(* the variables: Spec / SpecFields (a screening session with one / two    *)
(* fields), SpecAccess (the session and reads of its result properties),   *)
(* SpecLOF / SpecLOFFair (the repeated LOF test), SpecTests (every outlier *)
(* test on a series of its own), SpecSetup (session setup with the         *)
(* time-resolution harmonization), SpecCRD (the critical-day limiter of    *)
(* NEPpenalty), SpecPenalty (the penalty calculation and its results),     *)
(* SpecFieldsArg (the `fields` argument of the session constructor),       *)
(* SpecLevel2 (the flag table of FluxQualityFlagsEddyPro) and              *)
(* SpecBootstrap (the bootstrap fit loop of plot_critical_hours).          *)
(***************************************************************************)
EXTENDS Integers, Sequences, FiniteSets, TLC

\* ------------------------------------------------------------------ bounds
NT == 2            \* timestamps of a harmonized series in a session
NLOF == 4          \* timestamps of the series given to a repeated LOF test
MaxFlags == 2      \* accepted flags per field before the session stops accepting
MaxRecs == 4       \* records of the field handed to the session setup
NDays == 2         \* days of the record given to NEPpenalty

\* --------------------------------------------------------------- constants
NaN == -1                        \* np.nan (missing value / test not applicable)
FLAG_OK == 0                     \* flag value of an accepted record
FLAG_REJECTED == 2               \* flag value of a rejected record
daytime_accept_qcf_below == 2    \* calc_qcf: qcf.calculate(daytime_accept_qcf_below=2, ...)
nighttimetime_accept_qcf_below == 2
LOF_MIN_SAMPLES == 2             \* LocalOutlierFactor.fit_predict needs a neighbour
PERCENT == 100                   \* counts_perc = (counts / n_vals) * 100
MIN_PERC_INV == 100              \* used if counts_perc > 0.01, i.e. > 1/100 percent
penalty_start_month_default == 5 \* NEPpenalty(penalty_start_month=5, ...)
penalty_end_month_default == 9   \* NEPpenalty(penalty_end_month=9, ...)

VARIABLES
    \* ---- StepwiseMeteoScreeningDb
    fields,                 \* self.fields
    data_detailed,          \* self._data_detailed[field][field]  (harmonized input)
    series_hires_orig,      \* self._series_hires_orig
    series_hires_cleaned,   \* self._series_hires_cleaned
    hires_flags,            \* self._hires_flags
    results_qcf,            \* self._results_qcf
    sod,                    \* self.sod[field] : StepwiseOutlierDetection
    is_daytime,             \* day/night classification of the session's timestamps
    lastop,                 \* the most recent call, whether it raised, and
                            \* whether it repeats the call before it
    \* ---- LocalOutlierFactorAllData / LocalOutlierFactorDaytimeNighttime
    flagtest,               \* the test object running calc(repeat)
    \* ---- StepwiseMeteoScreeningDb.__init__ / _setup_fields
    setup,                  \* the setup of one field, step by step
    \* ---- NEPpenalty
    nep                     \* the penalty object and the position of its running call

sessionVars == <<fields, data_detailed, series_hires_orig, series_hires_cleaned,
                 hires_flags, results_qcf, sod, is_daytime, lastop>>

vars == <<sessionVars, flagtest, setup, nep>>

\* what a session never touches
notSession == <<flagtest, setup, nep>>

\* ------------------------------------------------------------ series basics
Min(a, b) == IF a < b THEN a ELSE b
Max(a, b) == IF a > b THEN a ELSE b

\* series.dropna().index
NonMissing(series) == {t \in DOMAIN series : series[t] # NaN}

\* series.dropna()
dropna(series) == [t \in NonMissing(series) |-> series[t]]

EmptyFrame == <<>>               \* pd.DataFrame(index=series.index) without columns / {}

\* --------------------------------------------------------------- FlagBase
\* setflag: ok records get 0, rejected records 2, all others stay missing
setflag(series, ok, rejected) ==
    [t \in DOMAIN series |->
        IF t \in rejected THEN FLAG_REJECTED
        ELSE IF t \in ok THEN FLAG_OK ELSE NaN]

\* setfiltered: rejected records are set to missing, the index is kept
setfiltered(series, rejected) ==
    [t \in DOMAIN series |-> IF t \in rejected THEN NaN ELSE series[t]]

\* the result object of one test: its flag and its filtered series
TestResult(series, ok, rejected) ==
    [flag |-> setflag(series, ok, rejected),
     filteredseries |-> setfiltered(series, rejected)]

NoResult == [flag |-> EmptyFrame, filteredseries |-> EmptyFrame]   \* no test run yet

\* ---------------------------------------------------------- AbsoluteLimits
\* AbsoluteLimits._flagtests: comparisons with a missing value are False
AbsoluteLimits_flagtests(series, min, max) ==
    [ok |-> {t \in DOMAIN series :
                series[t] # NaN /\ (series[t] >= min \/ series[t] <= max)},
     rejected |-> {t \in DOMAIN series :
                series[t] # NaN /\ (series[t] < min \/ series[t] > max)}]

\* AbsoluteLimits.calc
AbsoluteLimits_calc(series, min, max) ==
    LET r == AbsoluteLimits_flagtests(series, min, max)
    IN  TestResult(series, r.ok, r.rejected)

\* AbsoluteLimitsDaytimeNighttime._flagtests: the non-missing records of the
\* day and of the night are compared with their own limits; ok and rejected
\* are read back from the one flag series the four masks are written to
AbsoluteLimitsDaytimeNighttime_flagtests(self, daytime_minmax, nighttime_minmax) ==
    LET s == dropna(self.series)
        _ok_dt == {t \in DOMAIN s \cap self.is_daytime :
                      s[t] >= daytime_minmax[1] /\ s[t] <= daytime_minmax[2]}
        _rejected_dt == {t \in DOMAIN s \cap self.is_daytime :
                      s[t] < daytime_minmax[1] \/ s[t] > daytime_minmax[2]}
        _ok_nt == {t \in DOMAIN s \cap self.is_nighttime :
                      s[t] >= nighttime_minmax[1] /\ s[t] <= nighttime_minmax[2]}
        _rejected_nt == {t \in DOMAIN s \cap self.is_nighttime :
                      s[t] < nighttime_minmax[1] \/ s[t] > nighttime_minmax[2]}
        flag == [t \in DOMAIN self.series |->
                    IF t \in _rejected_nt THEN FLAG_REJECTED
                    ELSE IF t \in _ok_nt THEN FLAG_OK
                    ELSE IF t \in _rejected_dt THEN FLAG_REJECTED
                    ELSE IF t \in _ok_dt THEN FLAG_OK ELSE NaN]
    IN  [ok |-> {t \in DOMAIN flag : flag[t] = FLAG_OK},
         rejected |-> {t \in DOMAIN flag : flag[t] = FLAG_REJECTED}]

\* ---------------------------------------------------------------- lof()
\* LocalOutlierFactor.fit_predict raises when it gets fewer than two samples
lof_raises(series) == Cardinality(NonMissing(series)) < LOF_MIN_SAMPLES

\* The labellings fit_predict can return for the non-missing samples: any set
\* of outliers that leaves at least one inlier (the densest sample has LOF <= 1)
lof_predictions(series) == {y \in SUBSET NonMissing(series) : y # NonMissing(series)}

\* lof(): the frame over the non-missing index with the columns
\* SERIES_, OUTLIER_ and NOT_OUTLIER_; y_pred is the set labelled -1
lof(series, y_pred) ==
    LET s  == dropna(series)
        ix == DOMAIN s
    IN  [SERIES      |-> s,
         OUTLIER     |-> [t \in ix |-> IF t \in y_pred THEN s[t] ELSE NaN],
         NOT_OUTLIER |-> [t \in ix |-> IF t \in y_pred THEN NaN ELSE s[t]]]

\* ------------------------------------------- StepwiseOutlierDetection (sod)
\* one accumulator per field: the working series, the accepted flags in the
\* order of acceptance, and the result of the most recent test (the preview)
sod_new(series) ==
    [series_hires_cleaned |-> series,
     hires_flags          |-> <<>>,
     last_results         |-> NoResult]

\* sod.flag_*_test(): the test runs on the current cleaned series of the
\* accumulator and only replaces the preview
sod_flag_test(s, result) == [s EXCEPT !.last_results = result]

\* sod.addflag() fails when no test has been run
sod_addflag_raises(s) == s.last_results = NoResult

\* sod.addflag(): append the previewed flag, continue with its filtered series
sod_addflag(s) ==
    [s EXCEPT !.hires_flags = Append(@, s.last_results.flag),
              !.series_hires_cleaned = s.last_results.filteredseries]

\* --------------------------------------------- LocalOutlierFactorAllData
\* what _flagtests() returns, from the frame(s) lof() made for the series s:
\* the flag is laid over the index of self.filteredseries
flagtests_result(self, ok0, rej0) ==
    LET flag == [t \in DOMAIN self.filteredseries |->
                    IF t \in rej0 THEN FLAG_REJECTED
                    ELSE IF t \in ok0 THEN FLAG_OK ELSE NaN]
        rejected == {t \in DOMAIN flag : flag[t] = FLAG_REJECTED}
    IN  [ok         |-> {t \in DOMAIN flag : flag[t] = FLAG_OK},
         rejected   |-> rejected,
         n_outliers |-> Cardinality(rejected)]

\* df['OUTLIER_'].dropna().index and df['NOT_OUTLIER_'].dropna().index
NotInlier(df_) == NonMissing(df_.OUTLIER)
Inlier(df_) == NonMissing(df_.NOT_OUTLIER)

\* a series restricted by a boolean mask: series[mask]
Masked(series, mask) == [t \in DOMAIN series \cap mask |-> series[t]]

\* LocalOutlierFactorAllData._flagtests(iteration): one pass of lof() over the
\* current filtered series.  y_pred is the labelling of fit_predict;
\* possible says that fit_predict can return it, raises that lof() raises
mutant_LocalOutlierFactorAllData_flagtests_series(self, y_pred) ==
    LET s   == self.series
        df_ == lof(s, y_pred)
    IN  [raises   |-> lof_raises(s),
         possible |-> y_pred \in lof_predictions(s),
         result   |-> flagtests_result(self, Inlier(df_), NotInlier(df_))]

mutant_LocalOutlierFactorAllData_flagtests_count(self, y_pred) ==
    LET s   == self.filteredseries
        df_ == lof(s, y_pred)
        r   == flagtests_result(self, Inlier(df_), NotInlier(df_))
    IN  [raises   |-> lof_raises(s),
         possible |-> y_pred \in lof_predictions(s),
         result   |-> [r EXCEPT !.n_outliers = Cardinality(r.ok \cup r.rejected)]]

LocalOutlierFactorAllData_flagtests(self, y_pred) ==
    LET s   == self.filteredseries
        df_ == lof(s, y_pred)
    IN  [raises   |-> lof_raises(s),
         possible |-> y_pred \in lof_predictions(s),
         result   |-> flagtests_result(self, Inlier(df_), NotInlier(df_))]

\* LocalOutlierFactorDaytimeNighttime._flagtests(iteration): lof() on the
\* daytime records, then lof() on the nighttime records
LocalOutlierFactorDaytimeNighttime_flagtests(self, y_pred) ==
    LET s_daytime    == Masked(self.filteredseries, self.is_daytime)
        s_nighttime  == Masked(self.filteredseries, self.is_nighttime)
        daytime_df   == lof(s_daytime, y_pred \cap self.is_daytime)
        nighttime_df == lof(s_nighttime, y_pred \cap self.is_nighttime)
    IN  [raises   |-> lof_raises(s_daytime) \/ lof_raises(s_nighttime),
         possible |-> /\ y_pred \cap self.is_daytime \in lof_predictions(s_daytime)
                      /\ y_pred \cap self.is_nighttime \in lof_predictions(s_nighttime)
                      /\ y_pred \subseteq self.is_daytime \cup self.is_nighttime,
         result   |-> flagtests_result(self,
                         Inlier(daytime_df) \cup Inlier(nighttime_df),
                         NotInlier(daytime_df) \cup NotInlier(nighttime_df))]

\* ---------------------------------------------------------------- FlagQCF
\* sum of the flags at one timestamp; a missing flag counts as zero
RECURSIVE SumFlags(_, _)
SumFlags(df, t) ==
    IF df = <<>> THEN 0
    ELSE (IF t \in DOMAIN Head(df) /\ Head(df)[t] # NaN THEN Head(df)[t] ELSE 0)
         + SumFlags(Tail(df), t)

\* FlagQCF(series, df).calculate(daytime_accept_qcf_below, nighttimetime_accept_qcf_below)
FlagQCF_calculate(series, df, daytime, dt_below, nt_below) ==
    LET flagqcf == [t \in DOMAIN series |-> SumFlags(df, t)]
        accepted(t) == IF t \in daytime THEN flagqcf[t] < dt_below
                                        ELSE flagqcf[t] < nt_below
    IN  [flags          |-> Append(df, flagqcf),
         flagqcf        |-> flagqcf,
         filteredseries |-> [t \in DOMAIN series |->
                                IF accepted(t) THEN series[t] ELSE NaN]]

\* ----------------------------------------------------------- corrections
\* setto_threshold(series, threshold, type='max')
setto_threshold_max(series, threshold) ==
    [t \in DOMAIN series |->
        IF series[t] # NaN /\ series[t] > threshold THEN threshold ELSE series[t]]

NoFlagtest == [pc |-> "none"]                 \* no LOF test object exists
NoSetup == [pc |-> "none"]                    \* no setup is being examined
NoNEP == [pc |-> "none"]                      \* no NEPpenalty object exists

\* ------------------------------------------------ StepwiseMeteoScreeningDb
FieldNames == <<"A", "B">>                    \* the fields a session can be set up with
FieldSet == {fields[i] : i \in 1..Len(fields)}
FieldPos(f) == CHOOSE i \in 1..Len(fields) : fields[i] = f
Index == 1..NT                                \* timestamps of a harmonized series
Vals == {1, 2}                                \* measured values
\* day/night is a function of the timestamp (and the site): odd timestamps are daytime
DaytimeNighttimeFlag(index) == {t \in index : t % 2 = 1}

\* `for field in self.fields:` stops at the first field whose call raises;
\* the position of that field among the raising ones, Len(fields)+1 when no
\* call raises
FirstRaise(raising) ==
    LET bad == {i \in 1..Len(fields) : fields[i] \in raising}
    IN  IF bad = {} THEN Len(fields) + 1
        ELSE CHOOSE i \in bad : \A j \in bad : i <= j

\* sod[field].flag_outliers_abslim_test(minval, maxval)
sod_flag_outliers_abslim_test(s, minval, maxval) ==
    sod_flag_test(s, AbsoluteLimits_calc(s.series_hires_cleaned, minval, maxval))

\* sod[field].flag_outliers_lof_test(): LocalOutlierFactorAllData on the
\* current cleaned series of the accumulator
sod_flag_outliers_lof_test(s, y_pred) ==
    LET self == [series |-> s.series_hires_cleaned,
                 filteredseries |-> s.series_hires_cleaned]
        r    == LocalOutlierFactorAllData_flagtests(self, y_pred).result
    IN  sod_flag_test(s, TestResult(s.series_hires_cleaned, r.ok, r.rejected))

\* (mutant) the test commits its filtered series without addflag()
mutant_flag_outliers_abslim_test_commits(minval, maxval) ==
    /\ sod' = [f \in FieldSet |-> sod_flag_outliers_abslim_test(sod[f], minval, maxval)]
    /\ series_hires_cleaned' =
          [f \in FieldSet |->
              sod_flag_outliers_abslim_test(sod[f], minval, maxval).last_results.filteredseries]
    /\ lastop' = [op |-> "flag_outliers_abslim_test", raised |-> FALSE, again |-> FALSE]
    /\ UNCHANGED <<fields, data_detailed, series_hires_orig,
                   hires_flags, results_qcf, is_daytime, notSession>>

\* flag_outliers_abslim_test(minval, maxval)
flag_outliers_abslim_test(minval, maxval) ==
    /\ sod' = [f \in FieldSet |-> sod_flag_outliers_abslim_test(sod[f], minval, maxval)]
    /\ lastop' = [op |-> "flag_outliers_abslim_test", raised |-> FALSE, again |-> FALSE]
    /\ UNCHANGED <<fields, data_detailed, series_hires_orig, series_hires_cleaned,
                   hires_flags, results_qcf, is_daytime, notSession>>

\* flag_outliers_lof_test(): y_pred[f] is what fit_predict labels -1 for field f
flag_outliers_lof_test(y_pred) ==
    LET k == FirstRaise({f \in FieldSet : lof_raises(sod[f].series_hires_cleaned)})
    IN  /\ \A f \in FieldSet :
              IF FieldPos(f) < k
              THEN y_pred[f] \in lof_predictions(sod[f].series_hires_cleaned)
              ELSE y_pred[f] = {}
        /\ sod' = [f \in FieldSet |->
                      IF FieldPos(f) < k
                      THEN sod_flag_outliers_lof_test(sod[f], y_pred[f])
                      ELSE sod[f]]
        /\ lastop' = [op |-> "flag_outliers_lof_test", raised |-> k <= Len(fields),
                      again |-> FALSE]
        /\ UNCHANGED <<fields, data_detailed, series_hires_orig, series_hires_cleaned,
                       hires_flags, results_qcf, is_daytime, notSession>>

\* addflag()
addflag ==
    LET k == FirstRaise({f \in FieldSet : sod_addflag_raises(sod[f])})
        done(f) == FieldPos(f) < k
    IN  /\ \A f \in FieldSet : Len(sod[f].hires_flags) < MaxFlags
        /\ sod' = [f \in FieldSet |-> IF done(f) THEN sod_addflag(sod[f]) ELSE sod[f]]
        /\ series_hires_cleaned' =
              [f \in FieldSet |-> IF done(f) THEN sod_addflag(sod[f]).series_hires_cleaned
                                  ELSE series_hires_cleaned[f]]
        /\ lastop' = [op |-> "addflag", raised |-> k <= Len(fields), again |-> FALSE]
        /\ UNCHANGED <<fields, data_detailed, series_hires_orig, hires_flags,
                       results_qcf, is_daytime, notSession>>

\* (mutant) QCF is accepted up to and including a single rejection
mutant_calc_qcf_field_threshold(f) ==
    FlagQCF_calculate(data_detailed[f], sod[f].hires_flags, is_daytime,
                      daytime_accept_qcf_below + 1, nighttimetime_accept_qcf_below)

\* the FlagQCF object calc_qcf() builds for one field
calc_qcf_field(f) ==
    FlagQCF_calculate(data_detailed[f], sod[f].hires_flags, is_daytime,
                      daytime_accept_qcf_below, nighttimetime_accept_qcf_below)

\* (mutant) the cleaned series is stored without its rejected records
mutant_calc_qcf_dropna ==
    /\ hires_flags' = [f \in FieldSet |-> calc_qcf_field(f).flags]
    /\ series_hires_cleaned' = [f \in FieldSet |-> dropna(calc_qcf_field(f).filteredseries)]
    /\ results_qcf' = [f \in FieldSet |-> calc_qcf_field(f)]
    /\ lastop' = [op |-> "calc_qcf", raised |-> FALSE,
                  again |-> lastop.op = "calc_qcf"]
    /\ UNCHANGED <<fields, data_detailed, series_hires_orig, sod, is_daytime, notSession>>

\* (mutant) the QCF column is written into the accumulator's own flags
mutant_calc_qcf_feeds_back ==
    /\ hires_flags' = [f \in FieldSet |-> calc_qcf_field(f).flags]
    /\ series_hires_cleaned' = [f \in FieldSet |-> calc_qcf_field(f).filteredseries]
    /\ results_qcf' = [f \in FieldSet |-> calc_qcf_field(f)]
    /\ sod' = [f \in FieldSet |-> [sod[f] EXCEPT !.hires_flags = calc_qcf_field(f).flags]]
    /\ lastop' = [op |-> "calc_qcf", raised |-> FALSE,
                  again |-> lastop.op = "calc_qcf"]
    /\ UNCHANGED <<fields, data_detailed, series_hires_orig, is_daytime, notSession>>

\* calc_qcf()
calc_qcf ==
    /\ hires_flags' = [f \in FieldSet |-> calc_qcf_field(f).flags]
    /\ series_hires_cleaned' = [f \in FieldSet |-> calc_qcf_field(f).filteredseries]
    /\ results_qcf' = [f \in FieldSet |-> calc_qcf_field(f)]
    /\ lastop' = [op |-> "calc_qcf", raised |-> FALSE,
                  again |-> lastop.op = "calc_qcf"]
    /\ UNCHANGED <<fields, data_detailed, series_hires_orig, sod, is_daytime, notSession>>

\* correction_setto_max_threshold(threshold)
correction_setto_max_threshold(threshold) ==
    /\ series_hires_cleaned' =
          [f \in FieldSet |-> setto_threshold_max(series_hires_cleaned[f], threshold)]
    /\ lastop' = [op |-> "correction_setto_max_threshold", raised |-> FALSE,
                  again |-> FALSE]
    /\ UNCHANGED <<fields, data_detailed, series_hires_orig, hires_flags, results_qcf,
                   sod, is_daytime, notSession>>

\* the state __init__ leaves for the field list fs: every field has a
\* harmonized series with at least one record, no flag, no preview, no QCF
InitSession(fs) ==
    /\ fields = fs
    /\ data_detailed \in [FieldSet -> [Index -> Vals \cup {NaN}]]
    /\ \A f \in FieldSet : NonMissing(data_detailed[f]) # {}
    /\ series_hires_orig = data_detailed
    /\ series_hires_cleaned = data_detailed
    /\ hires_flags = [f \in FieldSet |-> EmptyFrame]
    /\ results_qcf = [f \in FieldSet |-> EmptyFrame]
    /\ sod = [f \in FieldSet |-> sod_new(data_detailed[f])]
    /\ is_daytime = DaytimeNighttimeFlag(Index)
    /\ lastop = [op |-> "init", raised |-> FALSE, again |-> FALSE]
    /\ flagtest = NoFlagtest
    /\ setup = NoSetup
    /\ nep = NoNEP

\* a session that screens one field
Init == InitSession(SubSeq(FieldNames, 1, 1))

\* a session that screens two fields
InitFields == InitSession(FieldNames)

Next ==
    \/ \E minval \in Vals, maxval \in Vals :
          minval <= maxval /\ flag_outliers_abslim_test(minval, maxval)
    \/ \E y_pred \in [FieldSet -> SUBSET Index] : flag_outliers_lof_test(y_pred)
    \/ addflag
    \/ calc_qcf
    \/ \E threshold \in Vals : correction_setto_max_threshold(threshold)

Spec == Init /\ [][Next]_vars

SpecFields == InitFields /\ [][Next]_vars

\* ------------------------------------------------- result properties
\* isinstance(x, dict) for an attribute that _setup_fields returned: a mapping
\* keyed by the fields of the session
isinstance_dict(x) == DOMAIN x = FieldSet

\* self._resampled_detailed: {field: {}} from _setup_fields on; resample(),
\* the only method that fills it, is not among the operations of this model
self_resampled_detailed == [f \in FieldSet |-> EmptyFrame]

\* the properties results_qcf and resampled_detailed
session_property(name) ==
    LET attribute == IF name = "results_qcf" THEN results_qcf ELSE self_resampled_detailed
    IN  [raises |-> ~isinstance_dict(attribute), value |-> attribute]

\* a caller reads the property `name`
read_property(name) ==
    /\ lastop' = [op |-> name, raised |-> session_property(name).raises, again |-> FALSE]
    /\ UNCHANGED <<fields, data_detailed, series_hires_orig, series_hires_cleaned,
                   hires_flags, results_qcf, sod, is_daytime, notSession>>

NextAccess ==
    \/ Next
    \/ \E name \in {"results_qcf", "resampled_detailed"} : read_property(name)

SpecAccess == Init /\ [][NextAccess]_vars

\* ============================================================ session claims
\* the accepted flags of every field, and the input the next test will get
accepted == [f \in FieldSet |-> sod[f].hires_flags]
test_input == [f \in FieldSet |-> sod[f].series_hires_cleaned]
IsFlagTest(op) == op \in {"flag_outliers_abslim_test", "flag_outliers_lof_test"}
RejectedBy(flag) == {t \in DOMAIN flag : flag[t] = FLAG_REJECTED}

\* C1: a flag test step changes only the preview: the accepted flags, the
\* cleaned series and the input of the next test stay as they are; accepted
\* flags change only in an addflag step, which appends the previewed flag of
\* the field and makes the filtered series of that preview the cleaned series
C1_TestIsPreviewOnly ==
    [][ /\ IsFlagTest(lastop'.op) =>
              /\ accepted' = accepted
              /\ series_hires_cleaned' = series_hires_cleaned
              /\ hires_flags' = hires_flags
              /\ test_input' = test_input
        /\ \A f \in FieldSet :
              accepted'[f] # accepted[f] =>
                  /\ lastop'.op = "addflag"
                  /\ accepted'[f] = Append(accepted[f], sod[f].last_results.flag)
                  /\ series_hires_cleaned'[f] = sod[f].last_results.filteredseries
                  /\ test_input'[f] = sod[f].last_results.filteredseries
      ]_vars

\* C1 witness: after an accepted test, a later test has been run whose preview
\* rejects a record that the cleaned series still holds
C1_Witness ==
    /\ IsFlagTest(lastop.op)
    /\ \E f \in FieldSet :
          /\ accepted[f] # <<>>
          /\ RejectedBy(sod[f].last_results.flag) # {}
          /\ sod[f].last_results.filteredseries # series_hires_cleaned[f]
          /\ sod[f].last_results.flag # accepted[f][Len(accepted[f])]

\* C2: the cleaned series of every field has the timestamp index of the
\* harmonized original series, and a timestamp rejected by an accepted flag
\* is in that index with a missing value
C2_CleanedKeepsIndex ==
    \A f \in FieldSet :
        /\ series_hires_orig[f] = data_detailed[f]
        /\ DOMAIN series_hires_cleaned[f] = DOMAIN series_hires_orig[f]
        /\ \A i \in 1..Len(accepted[f]) : \A t \in RejectedBy(accepted[f][i]) :
              /\ t \in DOMAIN series_hires_cleaned[f]
              /\ series_hires_cleaned[f][t] = NaN

\* C2 witness: calc_qcf has run and a record of the original series is
\* missing in the cleaned series
C2_Witness ==
    /\ lastop.op = "calc_qcf"
    /\ \E f \in FieldSet : \E t \in DOMAIN series_hires_orig[f] :
          /\ series_hires_orig[f][t] # NaN
          /\ \E i \in 1..Len(accepted[f]) : t \in RejectedBy(accepted[f][i])
          /\ series_hires_cleaned[f][t] = NaN

\* C3 (as stated): an addflag() that raises leaves the accepted flags and the
\* cleaned series of every field as they were
C3_FailedAcceptChangesNothing ==
    [][ (lastop'.op = "addflag" /\ lastop'.raised) =>
            /\ accepted' = accepted
            /\ series_hires_cleaned' = series_hires_cleaned ]_vars

\* the number of accepted flags that reject timestamp t
NRejecting(df, t) ==
    Cardinality({i \in 1..Len(df) : t \in DOMAIN df[i] /\ df[i][t] = FLAG_REJECTED})

\* C4: right after calc_qcf, QCF at every timestamp is the sum of the accepted
\* flags (every flag is 0, 2 or missing, missing counting as zero), it is at
\* least every single flag, and the cleaned series holds the value of the
\* harmonized series where QCF < 2 and a missing value where QCF >= 2
C4_QcfIsSumAndFilters ==
    lastop.op = "calc_qcf" =>
        \A f \in FieldSet : \A t \in DOMAIN data_detailed[f] :
            LET qcf == results_qcf[f].flagqcf[t]
            IN  /\ \A i \in 1..Len(accepted[f]) :
                      accepted[f][i][t] \in {FLAG_OK, FLAG_REJECTED, NaN}
                /\ qcf = FLAG_REJECTED * NRejecting(accepted[f], t)
                /\ \A i \in 1..Len(accepted[f]) : qcf >= accepted[f][i][t]
                /\ qcf < 2 => series_hires_cleaned[f][t] = data_detailed[f][t]
                /\ qcf >= 2 => series_hires_cleaned[f][t] = NaN

\* C4 witness: calc_qcf has run on two accepted flags; one timestamp is
\* rejected by exactly one of them and lost, another is kept
C4_Witness ==
    /\ lastop.op = "calc_qcf"
    /\ \E f \in FieldSet :
          /\ Len(accepted[f]) >= 2
          /\ \E t \in DOMAIN data_detailed[f] :
                /\ results_qcf[f].flagqcf[t] = 2
                /\ data_detailed[f][t] # NaN
                /\ series_hires_cleaned[f][t] = NaN
          /\ \E t \in DOMAIN data_detailed[f] :
                /\ results_qcf[f].flagqcf[t] = 0
                /\ series_hires_cleaned[f][t] # NaN

\* C5: a calc_qcf() that directly follows a calc_qcf() changes neither the
\* QCF results, nor the cleaned series, nor the flags stored with the
\* session, nor the accepted flags
C5_CalcQcfIdempotent ==
    [][ (lastop'.op = "calc_qcf" /\ lastop'.again) =>
            /\ results_qcf' = results_qcf
            /\ series_hires_cleaned' = series_hires_cleaned
            /\ hires_flags' = hires_flags
            /\ accepted' = accepted ]_vars

\* C5 witness: calc_qcf has been called twice in a row on accepted flags
\* that reject a record
C5_Witness ==
    /\ lastop.op = "calc_qcf"
    /\ lastop.again
    /\ \E f \in FieldSet : \E t \in DOMAIN data_detailed[f] :
          results_qcf[f].flagqcf[t] >= 2

\* ------------------------------------------------- FlagBase.repeat (calc)
MaxIter == NLOF + 2        \* more iterations than a series of NLOF records allows

\* the test object after __init__, about to run calc(repeat)
FlagBase_init(cls, series, repeat) ==
    [cls            |-> cls,
     series         |-> series,
     filteredseries |-> series,
     is_daytime     |-> DaytimeNighttimeFlag(DOMAIN series),
     is_nighttime   |-> DOMAIN series \ DaytimeNighttimeFlag(DOMAIN series),
     repeat         |-> repeat,
     iteration      |-> 0,
     n_outliers     |-> NaN,
     flags          |-> <<>>,
     overall_flag   |-> EmptyFrame,
     pc             |-> "running"]

\* run_flagtests(iteration) and the loop test of repeat(): the flag of the
\* iteration is stored, its rejected records are removed from the filtered
\* series, and the loop goes on while outliers were found and repeat is set
run_flagtests(self, r) ==
    [self EXCEPT !.iteration      = @ + 1,
                 !.flags          = Append(@, setflag(self.filteredseries, r.ok, r.rejected)),
                 !.filteredseries = setfiltered(@, r.rejected),
                 !.n_outliers     = r.n_outliers,
                 !.pc             = IF r.n_outliers > 0 /\ self.repeat
                                    THEN "running" ELSE "collect"]

\* the overall flag: rejected where any iteration rejected, ok where an
\* iteration accepted and none rejected, missing where never evaluated
collect_results(self) ==
    [t \in DOMAIN self.series |->
        IF \E i \in 1..Len(self.flags) : self.flags[i][t] = FLAG_REJECTED
        THEN FLAG_REJECTED
        ELSE IF \E i \in 1..Len(self.flags) : self.flags[i][t] = FLAG_OK
        THEN FLAG_OK ELSE NaN]

\* one iteration of LocalOutlierFactorAllData.calc(repeat)
LocalOutlierFactorAllData_iteration ==
    /\ flagtest.pc = "running"
    /\ flagtest.cls = "LocalOutlierFactorAllData"
    /\ flagtest.iteration < MaxIter
    /\ \E y_pred \in SUBSET DOMAIN flagtest.series :
          \E t \in {LocalOutlierFactorAllData_flagtests(flagtest, y_pred)} :
              /\ ~t.raises
              /\ t.possible
              /\ flagtest' = run_flagtests(flagtest, t.result)
    /\ UNCHANGED <<sessionVars, setup, nep>>

\* lof() raises inside an iteration of LocalOutlierFactorAllData.calc
LocalOutlierFactorAllData_raises ==
    /\ flagtest.pc = "running"
    /\ flagtest.cls = "LocalOutlierFactorAllData"
    /\ flagtest.iteration < MaxIter
    /\ LocalOutlierFactorAllData_flagtests(flagtest, {}).raises
    /\ flagtest' = [flagtest EXCEPT !.pc = "error"]
    /\ UNCHANGED <<sessionVars, setup, nep>>

\* one iteration of LocalOutlierFactorDaytimeNighttime.calc(repeat)
LocalOutlierFactorDaytimeNighttime_iteration ==
    /\ flagtest.pc = "running"
    /\ flagtest.cls = "LocalOutlierFactorDaytimeNighttime"
    /\ flagtest.iteration < MaxIter
    /\ \E y_pred \in SUBSET DOMAIN flagtest.series :
          \E t \in {LocalOutlierFactorDaytimeNighttime_flagtests(flagtest, y_pred)} :
              /\ ~t.raises
              /\ t.possible
              /\ flagtest' = run_flagtests(flagtest, t.result)
    /\ UNCHANGED <<sessionVars, setup, nep>>

\* lof() raises inside an iteration of LocalOutlierFactorDaytimeNighttime.calc
LocalOutlierFactorDaytimeNighttime_raises ==
    /\ flagtest.pc = "running"
    /\ flagtest.cls = "LocalOutlierFactorDaytimeNighttime"
    /\ flagtest.iteration < MaxIter
    /\ LocalOutlierFactorDaytimeNighttime_flagtests(flagtest, {}).raises
    /\ flagtest' = [flagtest EXCEPT !.pc = "error"]
    /\ UNCHANGED <<sessionVars, setup, nep>>

\* the loop of repeat() has ended: the overall flag is collected and returned
calc_return ==
    /\ flagtest.pc = "collect"
    /\ flagtest' = [flagtest EXCEPT !.overall_flag = collect_results(flagtest),
                                    !.pc = "done"]
    /\ UNCHANGED <<sessionVars, setup, nep>>

\* no session exists while a single test object is examined
NoSession ==
    /\ fields = <<>>
    /\ data_detailed = <<>>
    /\ series_hires_orig = <<>>
    /\ series_hires_cleaned = <<>>
    /\ hires_flags = <<>>
    /\ results_qcf = <<>>
    /\ sod = <<>>
    /\ is_daytime = {}
    /\ lastop = [op |-> "none", raised |-> FALSE, again |-> FALSE]

InitLOF ==
    /\ NoSession
    /\ \E cls \in {"LocalOutlierFactorAllData", "LocalOutlierFactorDaytimeNighttime"},
          series \in [1..NLOF -> {NaN, 1}],
          repeat \in BOOLEAN :
          flagtest = FlagBase_init(cls, series, repeat)
    /\ setup = NoSetup
    /\ nep = NoNEP

NextLOF ==
    \/ LocalOutlierFactorAllData_iteration
    \/ LocalOutlierFactorAllData_raises
    \/ LocalOutlierFactorDaytimeNighttime_iteration
    \/ LocalOutlierFactorDaytimeNighttime_raises
    \/ calc_return

SpecLOF == InitLOF /\ [][NextLOF]_vars

\* calc() is one synchronous call: a started loop keeps running
SpecLOFFair == SpecLOF /\ WF_vars(NextLOF)

\* ------------------------------------------------ absolute-limits tests
\* the limits given to calc(): [min, max] pairs
Limits == {<<2, 2>>, <<1, 2>>, <<2, 3>>}
AbsLimVals == {NaN, 1, 2, 3}

\* AbsoluteLimits(series) / AbsoluteLimitsDaytimeNighttime(series, lat, lon, ...)
\* after __init__, about to run calc(...) with the limits `minmax`
AbsoluteLimits_init(cls, series, minmax) ==
    [cls          |-> cls,
     series       |-> series,
     is_daytime   |-> DaytimeNighttimeFlag(DOMAIN series),
     is_nighttime |-> DOMAIN series \ DaytimeNighttimeFlag(DOMAIN series),
     minmax       |-> minmax,
     ok           |-> {},
     rejected     |-> {},
     result       |-> NoResult,
     pc           |-> "running"]

\* calc(): _flagtests, setflag and setfiltered
AbsoluteLimits_finish(self, r) ==
    [self EXCEPT !.ok = r.ok,
                 !.rejected = r.rejected,
                 !.result = TestResult(self.series, r.ok, r.rejected),
                 !.pc = "done"]

\* AbsoluteLimits.calc(min, max)
AbsoluteLimits_run ==
    /\ flagtest.pc = "running"
    /\ flagtest.cls = "AbsoluteLimits"
    /\ flagtest' = AbsoluteLimits_finish(flagtest,
                       AbsoluteLimits_flagtests(flagtest.series,
                           flagtest.minmax[1][1], flagtest.minmax[1][2]))
    /\ UNCHANGED <<sessionVars, setup, nep>>

\* AbsoluteLimitsDaytimeNighttime.calc(daytime_minmax, nighttime_minmax)
AbsoluteLimitsDaytimeNighttime_run ==
    /\ flagtest.pc = "running"
    /\ flagtest.cls = "AbsoluteLimitsDaytimeNighttime"
    /\ flagtest' = AbsoluteLimits_finish(flagtest,
                       AbsoluteLimitsDaytimeNighttime_flagtests(flagtest,
                           flagtest.minmax[1], flagtest.minmax[2]))
    /\ UNCHANGED <<sessionVars, setup, nep>>

InitAbsLim ==
    /\ NoSession
    /\ setup = NoSetup
    /\ nep = NoNEP
    /\ \E series \in [1..NLOF -> AbsLimVals], dt \in Limits, nt \in Limits :
          \/ flagtest = AbsoluteLimits_init("AbsoluteLimits", series, <<dt>>) /\ dt = nt
          \/ flagtest = AbsoluteLimits_init("AbsoluteLimitsDaytimeNighttime",
                                            series, <<dt, nt>>)

\* every outlier test of the package on a series of its own
InitTests == InitLOF \/ InitAbsLim

NextTests ==
    \/ NextLOF
    \/ AbsoluteLimits_run
    \/ AbsoluteLimitsDaytimeNighttime_run

SpecTests == InitTests /\ [][NextTests]_vars

\* ======================================= _setup_fields (one field, stepwise)
\* A frame is a function from timestamps (seconds, as integers) to rows; a
\* row is a record of the columns val (the field) and FREQ_AUTO_SEC.
Steps == {1, 3}          \* sampling intervals in the input: fine and coarse
NaNRow == [val |-> NaN, FREQ_AUTO_SEC |-> NaN]
NoFrame == <<>>
SetMin(S) == CHOOSE x \in S : \A y \in S : x <= y
SetMax(S) == CHOOSE x \in S : \A y \in S : x >= y

RECURSIVE TimestampOf(_, _)
TimestampOf(gaps, i) == IF i = 1 THEN 0 ELSE TimestampOf(gaps, i - 1) + gaps[i - 1]

\* the records of one field as they come from the database: record i has
\* the value i, or no value
InputFrame(n, gaps, present) ==
    [t \in {TimestampOf(gaps, i) : i \in 1..n} |->
        LET i == CHOOSE j \in 1..n : TimestampOf(gaps, j) = t
        IN  [val |-> IF present[i] THEN i ELSE NaN]]

\* detect_freq_groups(index): seconds since the previous timestamp, the first
\* timestamp takes the value of the second
detect_freq_groups(index) ==
    [t \in index |->
        LET before == {u \in index : u < t}
            after  == {u \in index : u > t}
        IN  IF before # {} THEN t - SetMax(before)
            ELSE IF after # {} THEN SetMin(after) - t
            ELSE NaN]

\* _make_timeres_groups: the column FREQ_AUTO_SEC is added to the frame
make_timeres_groups(df) ==
    [t \in DOMAIN df |-> [val |-> df[t].val,
                          FREQ_AUTO_SEC |-> detect_freq_groups(DOMAIN df)[t]]]

\* the keys of data_detailed.groupby(data_detailed['FREQ_AUTO_SEC'])
GroupKeys(df) == {df[t].FREQ_AUTO_SEC : t \in DOMAIN df} \ {NaN}
Group(df, freq) == [t \in {u \in DOMAIN df : df[u].FREQ_AUTO_SEC = freq} |-> df[t]]

\* _count_group_records: non-missing values of the field per time resolution
count_group_records(df) ==
    [freq \in GroupKeys(df) |->
        Cardinality({t \in DOMAIN df : df[t].FREQ_AUTO_SEC = freq /\ df[t].val # NaN})]

RECURSIVE SumCounts(_, _)
SumCounts(group_counts, keys) ==
    IF keys = {} THEN 0
    ELSE LET k == CHOOSE x \in keys : TRUE
         IN  group_counts[k] + SumCounts(group_counts, keys \ {k})

\* (mutant) a time resolution without any record is used as well
mutant_validate_n_grouprecords_all_used(group_counts) ==
    [raises         |-> DOMAIN group_counts = {},
     used_freqs     |-> DOMAIN group_counts,
     rejected_freqs |-> <<>>,
     targetfreq     |-> IF DOMAIN group_counts = {} THEN NaN
                        ELSE SetMin(DOMAIN group_counts)]

\* (mutant) without a usable time resolution the target is left undefined
mutant_validate_n_grouprecords_no_raise(group_counts) ==
    LET n_vals == SumCounts(group_counts, DOMAIN group_counts)
        used   == {freq \in DOMAIN group_counts :
                      group_counts[freq] * PERCENT * MIN_PERC_INV > n_vals}
    IN  [raises         |-> FALSE,
         used_freqs     |-> used,
         rejected_freqs |-> <<>>,
         targetfreq     |-> IF used = {} THEN NaN ELSE SetMin(used)]

\* _validate_n_grouprecords: a time resolution is used if it holds more than
\* 0.01 percent of the counted values (0/0 is nan and nan > 0.01 is False);
\* every rejection appends the list rejected_freqs to itself; min() of an
\* empty used_freqs raises
validate_n_grouprecords(group_counts) ==
    LET n_vals == SumCounts(group_counts, DOMAIN group_counts)
        used   == {freq \in DOMAIN group_counts :
                      group_counts[freq] * PERCENT * MIN_PERC_INV > n_vals}
    IN  [raises         |-> used = {},
         used_freqs     |-> used,
         rejected_freqs |-> [i \in 1..Cardinality(DOMAIN group_counts \ used)
                                |-> "rejected_freqs"],
         targetfreq     |-> IF used = {} THEN NaN ELSE SetMin(used)]

\* _filter_data: the rows whose time resolution is used
filter_data(df, used_freqs) ==
    [t \in {u \in DOMAIN df : df[u].FREQ_AUTO_SEC \in used_freqs} |-> df[t]]

\* pd.date_range(start, end, freq)
date_range(start, end, freq) == {t \in start..end : (t - start) % freq = 0}

\* df.reindex(ix): the rows of df on ix, missing rows elsewhere
reindex(df, ix) == [t \in ix |-> IF t \in DOMAIN df THEN df[t] ELSE NaNRow]

\* column-wise fillna(method='backfill', limit): a missing cell takes the next
\* valid cell of its column if that is at most limit rows away
NextValid(df, col, t) == {u \in DOMAIN df : u > t /\ df[u][col] # NaN}
RowsBetween(df, t, u) == Cardinality({x \in DOMAIN df : t < x /\ x <= u})
backfill_cell(df, col, t, limit) ==
    IF df[t][col] # NaN \/ NextValid(df, col, t) = {} THEN df[t][col]
    ELSE LET u == SetMin(NextValid(df, col, t))
         IN  IF RowsBetween(df, t, u) <= limit THEN df[u][col] ELSE NaN
backfill(df, limit) ==
    [t \in DOMAIN df |-> [val           |-> backfill_cell(df, "val", t, limit),
                          FREQ_AUTO_SEC |-> backfill_cell(df, "FREQ_AUTO_SEC", t, limit)]]

\* column-wise forward fill, the opposite direction
PrevValid(df, col, t) == {u \in DOMAIN df : u < t /\ df[u][col] # NaN}
ffill_cell(df, col, t, limit) ==
    IF df[t][col] # NaN \/ PrevValid(df, col, t) = {} THEN df[t][col]
    ELSE LET u == SetMax(PrevValid(df, col, t))
         IN  IF RowsBetween(df, u, t) <= limit THEN df[u][col] ELSE NaN
ffill(df, limit) ==
    [t \in DOMAIN df |-> [val           |-> ffill_cell(df, "val", t, limit),
                          FREQ_AUTO_SEC |-> ffill_cell(df, "FREQ_AUTO_SEC", t, limit)]]

\* df.iloc[1:]
iloc_from_1(df) == [t \in DOMAIN df \ {SetMin(DOMAIN df)} |-> df[t]]

\* (mutant) the cells of the frame that is merged in replace those present
mutant_combine_first_other_wins(a, b) ==
    [t \in DOMAIN a \cup DOMAIN b |-> IF t \in DOMAIN b THEN b[t] ELSE a[t]]

\* a.combine_first(b): the union of the indexes, a cell of a where it is
\* valid, else the cell of b
combine_cell(a, b, col, t) ==
    IF t \in DOMAIN a /\ a[t][col] # NaN THEN a[t][col]
    ELSE IF t \in DOMAIN b THEN b[t][col] ELSE NaN
combine_first(a, b) ==
    [t \in DOMAIN a \cup DOMAIN b |->
        [val           |-> combine_cell(a, b, "val", t),
         FREQ_AUTO_SEC |-> combine_cell(a, b, "FREQ_AUTO_SEC", t)]]

\* pd.concat([a, b], axis=0) of frames without a common timestamp
concat(a, b) == [t \in DOMAIN a \cup DOMAIN b |-> IF t \in DOMAIN a THEN a[t] ELSE b[t]]

\* the fill limit of a coarser group
fill_limit(freq, targetfreq) == (freq \div targetfreq) - 1

\* (mutant) the values are filled forward instead of backward
mutant_upsample_ffill(groupdf, freq, targetfreq) ==
    LET start    == SetMin(DOMAIN groupdf) - freq
        hires_ix == date_range(start, SetMax(DOMAIN groupdf), targetfreq)
    IN  iloc_from_1(ffill(reindex(groupdf, hires_ix), fill_limit(freq, targetfreq)))

\* the upsampled frame of a coarser group
upsample(groupdf, freq, targetfreq) ==
    LET start    == SetMin(DOMAIN groupdf) - freq
        hires_ix == date_range(start, SetMax(DOMAIN groupdf), targetfreq)
    IN  iloc_from_1(backfill(reindex(groupdf, hires_ix), fill_limit(freq, targetfreq)))

\* the loop of _harmonize_timeresolution over the groups, finest first
RECURSIVE harmonize_groups(_, _, _, _)
harmonize_groups(upsampleddf, df, freqs, targetfreq) ==
    IF freqs = {} THEN upsampleddf
    ELSE LET freq == SetMin(freqs)
             groupdf == Group(df, freq)
             merged == IF freq = targetfreq
                       THEN concat(upsampleddf, groupdf)
                       ELSE combine_first(upsampleddf, upsample(groupdf, freq, targetfreq))
         IN  harmonize_groups(merged, df, freqs \ {freq}, targetfreq)

\* the index of the merged frame as the number of rows per timestamp:
\* pd.concat appends the rows of both frames, combine_first takes the union
\* of the two indexes
index_of(df) == [t \in DOMAIN df |-> 1]
RowsAt(ix, t) == IF t \in DOMAIN ix THEN ix[t] ELSE 0
concat_index(a, b) == [t \in DOMAIN a \cup DOMAIN b |-> RowsAt(a, t) + RowsAt(b, t)]
combine_first_index(a, b) ==
    [t \in DOMAIN a \cup DOMAIN b |->
        IF RowsAt(a, t) >= RowsAt(b, t) THEN RowsAt(a, t) ELSE RowsAt(b, t)]
RECURSIVE harmonize_index(_, _, _, _)
harmonize_index(ix, df, freqs, targetfreq) ==
    IF freqs = {} THEN ix
    ELSE LET freq == SetMin(freqs)
             groupdf == Group(df, freq)
             merged == IF freq = targetfreq
                       THEN concat_index(ix, index_of(groupdf))
                       ELSE combine_first_index(
                                ix, index_of(upsample(groupdf, freq, targetfreq)))
         IN  harmonize_index(merged, df, freqs \ {freq}, targetfreq)

\* _harmonize_timeresolution: fillna raises for a limit that is not positive
harmonize_timeresolution(targetfreq, df) ==
    [raises |-> \E freq \in GroupKeys(df) :
                    freq # targetfreq /\ fill_limit(freq, targetfreq) < 1,
     df     |-> harmonize_groups(NoFrame, df, GroupKeys(df), targetfreq)]

\* _sanitize_timestamp: asfreq puts the frame on the regular index from its
\* first to its last timestamp; TimestampSanitizer names every interval by
\* its middle (rows stay keyed by the end of their interval here)
asfreq(df, freq) ==
    IF DOMAIN df = {} THEN df
    ELSE reindex(df, date_range(SetMin(DOMAIN df), SetMax(DOMAIN df), freq))
sanitize_timestamp(targetfreq, df) ==
    [timestamp_name |-> "TIMESTAMP_MIDDLE", df |-> asfreq(df, targetfreq)]

\* ---- the body of the loop of _setup_fields, one call per step
\* __init__ has been called with the records of one field.  input is the
\* content of the caller's frame at the call; caller is the content of the
\* caller's frame now: data_detailed.copy() copies the dict, not its frames,
\* so self.data_detailed[field] is the caller's frame until a step rebinds
\* data_detailed to a new frame (_filter_data and later)
setup_new(df, n_units, n_varname) ==
    [pc             |-> "_check_units",
     calls          |-> <<>>,
     n_units        |-> n_units,
     n_varname      |-> n_varname,
     input          |-> df,
     caller         |-> df,
     data_detailed  |-> df,
     group_counts   |-> <<>>,
     targetfreq     |-> NaN,
     used_freqs     |-> {},
     rejected_freqs |-> <<>>,
     timestamp_name |-> "TIMESTAMP_END",
     raised_by      |-> "",
     session        |-> FALSE]

\* a call of the step `name` that raises: __init__ is left, no object exists
setup_raise(name) ==
    [setup EXCEPT !.pc = "error", !.raised_by = name, !.calls = Append(@, name)]

\* (mutant) _check_units accepts every group
mutant_setup_fields_check_units_passes ==
    /\ setup.pc = "_check_units"
    /\ setup' = [setup EXCEPT !.pc = "_check_fields",
                              !.calls = Append(@, "_check_units")]
    /\ UNCHANGED <<sessionVars, flagtest, nep>>

\* self._check_units(data_detailed)
setup_fields_check_units ==
    /\ setup.pc = "_check_units"
    /\ setup' = IF setup.n_units > 1 THEN setup_raise("_check_units")
                ELSE [setup EXCEPT !.pc = "_check_fields",
                                   !.calls = Append(@, "_check_units")]
    /\ UNCHANGED <<sessionVars, flagtest, nep>>

\* self._check_fields(data_detailed)
setup_fields_check_fields ==
    /\ setup.pc = "_check_fields"
    /\ setup' = IF setup.n_varname > 1 THEN setup_raise("_check_fields")
                ELSE [setup EXCEPT !.pc = "_make_timeres_groups",
                                   !.calls = Append(@, "_check_fields")]
    /\ UNCHANGED <<sessionVars, flagtest, nep>>

\* groups = self._make_timeres_groups(data_detailed): the column is assigned
\* on the frame that was passed, which is the caller's frame
setup_fields_make_timeres_groups ==
    /\ setup.pc = "_make_timeres_groups"
    /\ setup' = [setup EXCEPT !.pc = "_count_group_records",
                              !.calls = Append(@, "_make_timeres_groups"),
                              !.data_detailed = make_timeres_groups(@),
                              !.caller = make_timeres_groups(@)]
    /\ UNCHANGED <<sessionVars, flagtest, nep>>

\* group_counts = self._count_group_records(groups[field])
setup_fields_count_group_records ==
    /\ setup.pc = "_count_group_records"
    /\ setup' = [setup EXCEPT !.pc = "_validate_n_grouprecords",
                              !.calls = Append(@, "_count_group_records"),
                              !.group_counts = count_group_records(setup.data_detailed)]
    /\ UNCHANGED <<sessionVars, flagtest, nep>>

\* targetfreq, used_freqs, rejected_freqs = self._validate_n_grouprecords(group_counts)
setup_fields_validate_n_grouprecords ==
    /\ setup.pc = "_validate_n_grouprecords"
    /\ \E v \in {validate_n_grouprecords(setup.group_counts)} :
          setup' = IF v.raises THEN setup_raise("_validate_n_grouprecords")
                   ELSE [setup EXCEPT !.pc = "_filter_data",
                                      !.calls = Append(@, "_validate_n_grouprecords"),
                                      !.targetfreq = v.targetfreq,
                                      !.used_freqs = v.used_freqs,
                                      !.rejected_freqs = v.rejected_freqs]
    /\ UNCHANGED <<sessionVars, flagtest, nep>>

\* data_detailed = self._filter_data(data_detailed, used_freqs)
setup_fields_filter_data ==
    /\ setup.pc = "_filter_data"
    /\ setup' = [setup EXCEPT !.pc = "_harmonize_timeresolution",
                              !.calls = Append(@, "_filter_data"),
                              !.data_detailed = filter_data(@, setup.used_freqs)]
    /\ UNCHANGED <<sessionVars, flagtest, nep>>

\* data_detailed = self._harmonize_timeresolution(targetfreq, data_detailed, ...)
setup_fields_harmonize_timeresolution ==
    /\ setup.pc = "_harmonize_timeresolution"
    /\ \E h \in {harmonize_timeresolution(setup.targetfreq, setup.data_detailed)} :
          setup' = IF h.raises THEN setup_raise("_harmonize_timeresolution")
                   ELSE [setup EXCEPT !.pc = "_sanitize_timestamp",
                                      !.calls = Append(@, "_harmonize_timeresolution"),
                                      !.data_detailed = h.df]
    /\ UNCHANGED <<sessionVars, flagtest, nep>>

\* data_detailed = self._sanitize_timestamp(targetfreq, data_detailed)
setup_fields_sanitize_timestamp ==
    /\ setup.pc = "_sanitize_timestamp"
    /\ \E z \in {sanitize_timestamp(setup.targetfreq, setup.data_detailed)} :
          setup' = [setup EXCEPT !.pc = "return",
                                 !.calls = Append(@, "_sanitize_timestamp"),
                                 !.data_detailed = z.df,
                                 !.timestamp_name = z.timestamp_name]
    /\ UNCHANGED <<sessionVars, flagtest, nep>>

\* the field is stored and __init__ returns the session
setup_fields_return ==
    /\ setup.pc = "return"
    /\ setup' = [setup EXCEPT !.pc = "ready", !.session = TRUE]
    /\ UNCHANGED <<sessionVars, flagtest, nep>>

InitSetup ==
    /\ NoSession
    /\ flagtest = NoFlagtest
    /\ \E n \in 0..MaxRecs :
       \E gaps \in [1..(n - 1) -> Steps], present \in [1..n -> BOOLEAN] :
       \E n_units \in 0..2, n_varname \in 0..2 :
          /\ (n = 0) = (n_units = 0)
          /\ (n = 0) = (n_varname = 0)
          /\ n_units <= n
          /\ n_varname <= n
          /\ setup = setup_new(InputFrame(n, gaps, present), n_units, n_varname)
    /\ nep = NoNEP

NextSetup ==
    \/ setup_fields_check_units
    \/ setup_fields_check_fields
    \/ setup_fields_make_timeres_groups
    \/ setup_fields_count_group_records
    \/ setup_fields_validate_n_grouprecords
    \/ setup_fields_filter_data
    \/ setup_fields_harmonize_timeresolution
    \/ setup_fields_sanitize_timestamp
    \/ setup_fields_return

SpecSetup == InitSetup /\ [][NextSetup]_vars

\* ================================================================ LOF claims
OkIn(flag) == {t \in DOMAIN flag : flag[t] = FLAG_OK}
EvaluatedIn(flag) == {t \in DOMAIN flag : flag[t] # NaN}

C7_Result ==
    flagtest.pc = "done" =>
        /\ flagtest.iteration = Len(flagtest.flags)
        /\ flagtest.iteration >= 1
        /\ ~flagtest.repeat => flagtest.iteration = 1
        /\ flagtest.repeat =>
              /\ RejectedBy(flagtest.flags[flagtest.iteration]) = {}
              /\ \A i \in 1..(flagtest.iteration - 1) :
                    RejectedBy(flagtest.flags[i]) # {}
        /\ \A t \in DOMAIN flagtest.series :
              flagtest.overall_flag[t] = FLAG_REJECTED
                  <=> \E i \in 1..Len(flagtest.flags) : t \in RejectedBy(flagtest.flags[i])

\* C7: calc() ends (it returns or lof() raises); when it returns with
\* repeat=True its last iteration is the first one without a rejection, with
\* repeat=False it ran one iteration, and the overall flag rejects exactly
\* the records that some iteration rejected
C7_RepeatLoopTerminates ==
    /\ <>(flagtest.pc \in {"done", "error"})
    /\ []C7_Result

\* C7 witness: a repeated test returned after three iterations
C7_Witness ==
    /\ flagtest.pc = "done"
    /\ flagtest.repeat
    /\ flagtest.iteration >= 3
    /\ \E t \in DOMAIN flagtest.series : flagtest.overall_flag[t] = FLAG_REJECTED

\* ============================================================== setup claims
\* the records handed in, with their time resolution
TaggedInput == make_timeres_groups(setup.input)
CountIn(inp, freq) ==
    Cardinality({t \in DOMAIN inp : inp[t].FREQ_AUTO_SEC = freq /\ inp[t].val # NaN})
TotalIn(inp) == Cardinality({t \in DOMAIN inp : inp[t].val # NaN})
Called(name) == \E i \in 1..Len(setup.calls) : setup.calls[i] = name

\* C8: for an input with a fine and a coarse time resolution, both used, the
\* harmonized frame has the regular index of the fine resolution over the
\* covered span (from the first fine record or the first back-filled slot of
\* the first coarse record, whichever is earlier, to the last record), that
\* is span/fine + 1 timestamps; the coarse/fine - 1 slots before a coarse
\* record hold exactly its value; a value is found only at its own record or
\* in those slots; the timestamp one coarse interval before the first coarse
\* record is not in the output unless it is a record itself
C8_HarmonizedTwoFrequencies ==
    (/\ setup.pc \in {"return", "ready"}
     /\ Cardinality(setup.used_freqs) = 2
     /\ GroupKeys(TaggedInput) = setup.used_freqs) =>
        LET inp    == TaggedInput
            out    == setup.data_detailed
            fine   == SetMin(setup.used_freqs)
            coarse == SetMax(setup.used_freqs)
            limit  == (coarse \div fine) - 1
            coarseRecs == {t \in DOMAIN inp : inp[t].FREQ_AUTO_SEC = coarse}
            fineRecs   == {t \in DOMAIN inp : inp[t].FREQ_AUTO_SEC = fine}
            start  == SetMin(fineRecs \cup {SetMin(coarseRecs) - coarse + fine})
            last   == SetMax(DOMAIN inp)
            FilledFrom(t) == {c \in coarseRecs : \E k \in 1..limit : c - k * fine = t}
        IN  /\ setup.targetfreq = fine
            /\ DOMAIN out = {start + k * fine : k \in 0..((last - start) \div fine)}
            /\ Cardinality(DOMAIN out) = ((last - start) \div fine) + 1
            /\ \A c \in coarseRecs : \A k \in 1..limit :
                  /\ (c - k * fine) \in DOMAIN out
                  /\ out[c - k * fine].val = inp[c].val
            /\ \A t \in DOMAIN inp : t \in DOMAIN out /\ out[t].val = inp[t].val
            /\ \A t \in DOMAIN out :
                  out[t].val # NaN =>
                      \/ t \in DOMAIN inp /\ inp[t].val = out[t].val
                      \/ \E c \in FilledFrom(t) : inp[c].val = out[t].val
            /\ (SetMin(coarseRecs) - coarse) \in DOMAIN out
                  => (SetMin(coarseRecs) - coarse) \in DOMAIN inp

\* C8 witness: the input starts with a coarse record, so slots before the
\* first record are filled; a coarse record with a value follows a record
\* without a value, which stays without a value
C8_Witness ==
    /\ setup.pc = "ready"
    /\ Cardinality(setup.used_freqs) = 2
    /\ GroupKeys(TaggedInput) = setup.used_freqs
    /\ SetMin(DOMAIN setup.data_detailed) < SetMin(DOMAIN setup.input)
    /\ \E c \in DOMAIN setup.input :
          LET coarse == SetMax(setup.used_freqs)
          IN  /\ TaggedInput[c].FREQ_AUTO_SEC = coarse
              /\ setup.input[c].val # NaN
              /\ (c - coarse) \in DOMAIN setup.input
              /\ setup.input[c - coarse].val = NaN
              /\ setup.data_detailed[c - coarse].val = NaN
              /\ setup.data_detailed[c - setup.targetfreq].val = setup.input[c].val

\* C9: a time resolution whose share of the counted values is below the
\* minimum of 0.01 percent is not used; once the data are filtered no row of
\* the frame is of a time resolution that is not used; the target is the
\* smallest of the used time resolutions and its share is not below the minimum
C9_FrequencySelection ==
    setup.pc \in {"_filter_data", "_harmonize_timeresolution",
                  "_sanitize_timestamp", "return", "ready"} =>
        LET inp == TaggedInput
            Below(freq) == CountIn(inp, freq) * PERCENT * MIN_PERC_INV < TotalIn(inp)
        IN  /\ \A freq \in GroupKeys(inp) : Below(freq) => freq \notin setup.used_freqs
            /\ setup.targetfreq \in setup.used_freqs
            /\ \A freq \in setup.used_freqs : setup.targetfreq <= freq
            /\ ~Below(setup.targetfreq)
            /\ setup.pc # "_filter_data" =>
                  \A t \in DOMAIN setup.data_detailed :
                      /\ setup.data_detailed[t].FREQ_AUTO_SEC \in setup.used_freqs \cup {NaN}
                      /\ setup.data_detailed[t].FREQ_AUTO_SEC = NaN =>
                            setup.data_detailed[t].val = NaN

\* C9 witness: the fine time resolution has records but no value and is
\* rejected, the session is set up on the coarse one
C9_Witness ==
    /\ setup.pc = "ready"
    /\ \E freq \in GroupKeys(TaggedInput) :
          /\ freq \notin setup.used_freqs
          /\ freq < setup.targetfreq
    /\ \E t \in DOMAIN setup.data_detailed : setup.data_detailed[t].val # NaN

\* C10: when no time resolution of the input passes the threshold, the call
\* of _validate_n_grouprecords raises; the data are neither filtered nor
\* harmonized and no session exists
C10_NoUsableFrequencyFails ==
    LET inp == TaggedInput
        NoneUsable == \A freq \in GroupKeys(inp) :
                          ~(CountIn(inp, freq) * PERCENT * MIN_PERC_INV > TotalIn(inp))
    IN  (setup.pc # "none" /\ NoneUsable) =>
            /\ ~setup.session
            /\ setup.pc # "ready"
            /\ ~Called("_filter_data")
            /\ ~Called("_harmonize_timeresolution")
            /\ ~Called("_sanitize_timestamp")
            /\ Called("_validate_n_grouprecords") =>
                  /\ setup.pc = "error"
                  /\ setup.raised_by = "_validate_n_grouprecords"

\* C10 witness: records of two time resolutions, none with a value; the
\* validation has raised
C10_Witness ==
    /\ setup.pc = "error"
    /\ setup.raised_by = "_validate_n_grouprecords"
    /\ Cardinality(GroupKeys(TaggedInput)) = 2
    /\ ~setup.session

\* =================================================================
\* NEPpenalty (pkgs/flux/nep_penalty.py)
\* =================================================================
\* The index is 1..NepLen: NDays calendar days with one record at each of
\* TimesOfDay, 06:00 (1) and 18:00 (2).  The daily maximum is taken over days
\* that start at 07:00, so the 06:00 record belongs to the aggregation day of
\* the evening before.  The flux column is held in the converted unit
\* (g CO2 m-2 30min-1) it has after __init__; flux values are even numbers, so
\* that no sum of them is the sentinel NaN.
TimesOfDay == {1, 2}
NepLen == NDays * Cardinality(TimesOfDay)
NepIndex == 1..NepLen
Day(t) == t \div Cardinality(TimesOfDay)
CalendarDay(t) == ((t - 1) \div Cardinality(TimesOfDay)) + 1
Time(t) == ((t - 1) % Cardinality(TimesOfDay)) + 1

None == <<>>                       \* an attribute that holds None
Some(v) == <<v>>                   \* an attribute that holds a value

\* comparisons of a column with a threshold: False where the value is missing
ge(a, b) == a # NaN /\ a >= b
gt(a, b) == a # NaN /\ a > b
lt(a, b) == a # NaN /\ a < b

SetMaxOr(S, default) == IF S = {} THEN default ELSE CHOOSE x \in S : \A y \in S : y <= x

\* frames.insert_aggregated_in_hires(df, col, to_freq='D', to_agg='max',
\* agg_offset='7H'): every record gets the maximum of col over its day
insert_aggregated_in_hires(col) ==
    [t \in DOMAIN col |->
        SetMaxOr({col[u] : u \in {u \in DOMAIN col : Day(u) = Day(t) /\ col[u] # NaN}}, NaN)]

in_penalty_months(self, t) ==
    /\ self.month[t] >= self.penalty_start_month
    /\ self.month[t] <= self.penalty_end_month

mutant_ncrds_ix_above_lower(self, aggcol) ==
    {t \in DOMAIN aggcol :
        /\ gt(aggcol[t], self.thres_ncrd_lower)
        /\ lt(aggcol[t], self.thres_crd)
        /\ in_penalty_months(self, t)}

\* nep_penalty.py 220-223
ncrds_ix(self, aggcol) ==
    {t \in DOMAIN aggcol :
        /\ ge(aggcol[t], self.thres_ncrd_lower)
        /\ lt(aggcol[t], self.thres_crd)
        /\ in_penalty_months(self, t)}

\* nep_penalty.py 242-244
crds_ix(self, aggcol) ==
    {t \in DOMAIN aggcol :
        /\ ge(aggcol[t], self.thres_crd)
        /\ in_penalty_months(self, t)}

\* df[flag] = 0 ; df.loc[ix, flag] = 1
flag_column(index, ix) == [t \in index |-> IF t \in ix THEN 1 ELSE 0]

\* df.loc[ix, col] = np.nan
set_nan(col, ix) == [t \in DOMAIN col |-> IF t \in ix THEN NaN ELSE col[t]]

\* median of the values of a non-empty set of records of a column
RECURSIVE SortedValues(_, _)
SortedValues(col, S) ==
    IF S = {} THEN <<>>
    ELSE LET t == CHOOSE t \in S : \A u \in S : col[t] < col[u] \/ (col[t] = col[u] /\ t <= u)
         IN  <<col[t]>> \o SortedValues(col, S \ {t})

median(col, S) ==
    LET v == SortedValues(col, S)
        n == Len(v)
    IN  IF n = 0 THEN NaN
        ELSE IF n % 2 = 1 THEN v[(n + 1) \div 2]
        ELSE (v[n \div 2] + v[(n \div 2) + 1]) \div 2

\* _diel_cycle(df.loc[ncrds_ix, ta_col], agg='median') merged on TIME:
\* the template of a record is the median of the nCRD records of its time
diel_cycle_template(ta, ncrds) ==
    [t \in DOMAIN ta |->
        median(ta, {u \in ncrds : Time(u) = Time(t) /\ ta[u] # NaN})]

\* series.fillna(other)
fillna(col, other) == [t \in DOMAIN col |-> IF col[t] = NaN THEN other[t] ELSE col[t]]

\* calc_vpd_from_ta_rh: the saturation deficit of the air at temperature ta
\* and relative humidity rh (percent); missing where an input is missing
calc_vpd_from_ta_rh(ta, rh) ==
    [t \in DOMAIN ta |->
        IF ta[t] = NaN \/ rh[t] = NaN THEN NaN
        ELSE (ta[t] * (PERCENT - rh[t])) \div PERCENT]

\* RandomForestTS(...).get_gapfilled_dataset(): the gaps of the target are
\* filled with the model's predictions, which depend on the random stream
RFStreams == {1, 2}
prediction(stream) == (4 * stream) - 6
RandomForestTS_gapfilled(target, stream) ==
    [t \in DOMAIN target |-> IF target[t] = NaN THEN prediction(stream) ELSE target[t]]

\* the streams a forest built with random_state can draw from
streams_of(random_state) == IF random_state = None THEN RFStreams ELSE {random_state[1]}

\* one entry of the record of _gapfill calls
gapfill_call(target_col, features, random_state, lagged_variants) ==
    [target_col |-> target_col, features |-> features,
     random_state |-> random_state, lagged_variants |-> lagged_variants]

\* the working frame of _limit_crd_data before any column is added
limit_frame ==
    [aggcol |-> None, ncrds_ix |-> {}, template |-> None, crds_ix |-> {},
     ta_limited |-> None, vpd_limited |-> None, vpd_limited_gf |-> None,
     swin_limited |-> None, swin_limited_gf |-> None, nep_limited |-> None,
     FLAG_CRD |-> None, FLAG_nCRD |-> None]

\* NEPpenalty.__init__
NEPpenalty_init(df, month, year, thres_crd, thres_ncrd_lower) ==
    [pc |-> "constructed",
     vpd_col |-> "VPD_f",
     vpd |-> df.vpd, ta |-> df.ta, swin |-> df.swin, rh |-> df.rh, nep |-> df.nep,
     month |-> month, year |-> year,
     thres_crd |-> thres_crd,
     thres_ncrd_lower |-> thres_ncrd_lower,
     penalty_start_month |-> penalty_start_month_default,
     penalty_end_month |-> penalty_end_month_default,
     attrs |-> {"_gapfilled_df", "_gf_results", "_penalty_hires_df", "_penalty_min_year"},
     _gapfilled_df |-> None,
     _gf_results |-> None,
     _penalty_hires_df |-> None,
     _penalty_per_year_df |-> None,
     _penalty_min_year |-> None,
     random_state |-> None,
     limited |-> limit_frame,
     gapfill_calls |-> <<>>,
     nep_limited_gf |-> None,
     read |-> None,
     plot |-> None]

notNEP == <<sessionVars, flagtest, setup>>

\* calculate_penalty(random_state=...) enters _calculate_penalty
calculate_penalty(random_state) ==
    /\ nep.pc = "constructed"
    /\ nep' = [nep EXCEPT !.pc = "limit:template",
                          !.random_state = random_state,
                          !.limited = limit_frame,
                          !.read = None,
                          !.plot = None]
    /\ UNCHANGED notNEP

\* _limit_crd_data 215-239: daily maximum, nCRD records, diel-cycle template
limit_crd_data_template ==
    /\ nep.pc = "limit:template"
    /\ \E aggcol \in {insert_aggregated_in_hires(nep.vpd)} :
       \E ncrds \in {ncrds_ix(nep, aggcol)} :
          nep' = [nep EXCEPT !.pc = "limit:ta",
                             !.limited.aggcol = aggcol,
                             !.limited.ncrds_ix = ncrds,
                             !.limited.template = diel_cycle_template(nep.ta, ncrds)]
    /\ UNCHANGED notNEP

\* _limit_crd_data 241-252: CRD records, limited temperature
limit_crd_data_ta ==
    /\ nep.pc = "limit:ta"
    /\ \E crds \in {crds_ix(nep, nep.limited.aggcol)} :
          nep' = [nep EXCEPT !.pc = "limit:vpd",
                             !.limited.crds_ix = crds,
                             !.limited.ta_limited =
                                 fillna(set_nan(nep.ta, crds), nep.limited.template)]
    /\ UNCHANGED notNEP

\* (mutant) the VPD is recomputed from the original temperature
mutant_limit_crd_data_vpd_from_original ==
    /\ nep.pc = "limit:vpd"
    /\ \E vpd_limited \in {calc_vpd_from_ta_rh(nep.ta, nep.rh)} :
       \E stream \in streams_of(None) :
          nep' = [nep EXCEPT !.pc = "limit:swin",
                             !.limited.vpd_limited = vpd_limited,
                             !.limited.vpd_limited_gf =
                                 RandomForestTS_gapfilled(vpd_limited, stream),
                             !.gapfill_calls = Append(@,
                                 gapfill_call("vpd_limited", {"swin", "ta"}, None, 1))]
    /\ UNCHANGED notNEP

\* _limit_crd_data 254-260: VPD from the limited temperature, gap-filled
limit_crd_data_vpd ==
    /\ nep.pc = "limit:vpd"
    /\ \E vpd_limited \in {calc_vpd_from_ta_rh(nep.limited.ta_limited, nep.rh)} :
       \E stream \in streams_of(None) :
          nep' = [nep EXCEPT !.pc = "limit:swin",
                             !.limited.vpd_limited = vpd_limited,
                             !.limited.vpd_limited_gf =
                                 RandomForestTS_gapfilled(vpd_limited, stream),
                             !.gapfill_calls = Append(@,
                                 gapfill_call("vpd_limited", {"swin", "ta_limited"}, None, 1))]
    /\ UNCHANGED notNEP

\* _limit_crd_data 262-271: radiation removed on CRD records, gap-filled
limit_crd_data_swin ==
    /\ nep.pc = "limit:swin"
    /\ \E swin_limited \in {set_nan(nep.swin, nep.limited.crds_ix)} :
       \E stream \in streams_of(None) :
          nep' = [nep EXCEPT !.pc = "limit:nep",
                             !.limited.swin_limited = swin_limited,
                             !.limited.swin_limited_gf =
                                 RandomForestTS_gapfilled(swin_limited, stream),
                             !.gapfill_calls = Append(@,
                                 gapfill_call("swin_limited", {"ta_limited"}, None, 0))]
    /\ UNCHANGED notNEP

\* _limit_crd_data 273-276: flux removed on CRD records
limit_crd_data_nep ==
    /\ nep.pc = "limit:nep"
    /\ nep' = [nep EXCEPT !.pc = "limit:flags",
                          !.limited.nep_limited = set_nan(nep.nep, nep.limited.crds_ix)]
    /\ UNCHANGED notNEP

\* _limit_crd_data 278-294: the flag columns; the frame is returned
limit_crd_data_flags ==
    /\ nep.pc = "limit:flags"
    /\ nep' = [nep EXCEPT !.pc = "limited",
                          !.limited.FLAG_CRD = flag_column(NepIndex, nep.limited.crds_ix),
                          !.limited.FLAG_nCRD = flag_column(NepIndex, nep.limited.ncrds_ix)]
    /\ UNCHANGED notNEP

NextLimit ==
    \/ \E random_state \in {None, Some(1)} : calculate_penalty(random_state)
    \/ limit_crd_data_template
    \/ limit_crd_data_ta
    \/ limit_crd_data_vpd
    \/ limit_crd_data_swin
    \/ limit_crd_data_nep
    \/ limit_crd_data_flags

\* the records given to the critical-day limiter: the threshold variable and
\* the thresholds vary, the months run from before the window into it
VpdVals == {NaN, 2, 3}
Thresholds == {2, 3}
MonthsAt(k) == [t \in NepIndex |-> IF t <= k THEN penalty_start_month_default - 1
                                   ELSE penalty_start_month_default]
FirstYear == 2020
TaOf(t) == 10 * t
TaGaps == {0, 1}          \* the record without temperature (0: none)
InputCRD(vpd, gap) ==
    [vpd |-> vpd,
     ta |-> [t \in NepIndex |-> IF t = gap THEN NaN ELSE TaOf(t)],
     swin |-> [t \in NepIndex |-> 1],
     rh |-> [t \in NepIndex |-> 50],
     nep |-> [t \in NepIndex |-> 1]]

InitCRD ==
    /\ NoSession
    /\ flagtest = NoFlagtest
    /\ setup = NoSetup
    /\ \E vpd \in [NepIndex -> VpdVals], k \in 0..NepLen,
          thres_crd \in Thresholds, thres_ncrd_lower \in Thresholds, gap \in TaGaps :
          nep = NEPpenalty_init(InputCRD(vpd, gap), MonthsAt(k),
                                [t \in NepIndex |-> FirstYear],
                                thres_crd, thres_ncrd_lower)

SpecCRD == InitCRD /\ [][NextLimit]_vars

\* ------------------------------------------------- _calculate_penalty
\* a.sub(b): missing where an operand is missing
sub(a, b) == [t \in DOMAIN a |-> IF a[t] = NaN \/ b[t] = NaN THEN NaN ELSE a[t] - b[t]]

\* series.groupby(...).sum() of one group: missing values are skipped
RECURSIVE SumOver(_, _)
SumOver(col, S) ==
    IF S = {} THEN 0
    ELSE LET t == CHOOSE t \in S : TRUE
         IN  (IF col[t] = NaN THEN 0 ELSE col[t]) + SumOver(col, S \ {t})

Years(self) == {self.year[t] : t \in NepIndex}
RecordsOf(self, y) == {t \in NepIndex : self.year[t] = y}

\* penalty_df['VPD_f'].resample('D').max(), > thres_crd, count per year:
\* the calendar days of the year whose maximum exceeds the threshold; a year
\* without such a day is not in the counts and gets a missing value
num_CRDs(self, y) ==
    LET days == {CalendarDay(t) : t \in RecordsOf(self, y)}
        daymax(d) == SetMaxOr({self.vpd[t] : t \in {t \in NepIndex :
                                   CalendarDay(t) = d /\ self.vpd[t] # NaN}}, NaN)
        n == Cardinality({d \in days : gt(daymax(d), self.thres_crd)})
    IN  IF n = 0 THEN NaN ELSE n

\* nep_penalty.py 190-201: the per-year table
penalty_per_year_df(self, penalty, gf) ==
    [y \in Years(self) |->
        [PENALTY |-> SumOver(penalty, RecordsOf(self, y)),
         nep_limited_gf |-> SumOver(gf, RecordsOf(self, y)),
         nep |-> SumOver(self.nep, RecordsOf(self, y)),
         num_CRDs |-> num_CRDs(self, y)]]

mutant_idxmax(table) ==
    CHOOSE y \in DOMAIN table :
        \A z \in DOMAIN table :
            \/ table[y].PENALTY > table[z].PENALTY
            \/ (table[y].PENALTY = table[z].PENALTY /\ y <= z)

\* penalty_per_year_df['PENALTY'].idxmin(): the first year of the minimum
idxmin(table) ==
    CHOOSE y \in DOMAIN table :
        \A z \in DOMAIN table :
            \/ table[y].PENALTY < table[z].PENALTY
            \/ (table[y].PENALTY = table[z].PENALTY /\ y <= z)

\* _calculate_penalty 154-171: the limited flux is gap-filled
calculate_penalty_gapfill ==
    /\ nep.pc = "limited"
    /\ \E stream \in streams_of(nep.random_state) :
          nep' = [nep EXCEPT !.pc = "penalty",
                             !.nep_limited_gf =
                                 RandomForestTS_gapfilled(nep.limited.nep_limited, stream),
                             !.gapfill_calls = Append(@,
                                 gapfill_call("nep_limited",
                                     {"ta_limited", "vpd_limited_gf", "swin_limited_gf"},
                                     nep.random_state, 1))]
    /\ UNCHANGED notNEP

\* _calculate_penalty 173-206 and the assignment of calculate_penalty 122-123
calculate_penalty_results ==
    /\ nep.pc = "penalty"
    /\ nep.vpd_col = "VPD_f"
    /\ \E penalty \in {sub(nep.nep_limited_gf, nep.nep)} :
       \E table \in {penalty_per_year_df(nep, penalty, nep.nep_limited_gf)} :
          nep' = [nep EXCEPT !.pc = "calculated",
                             !.attrs = @ \cup {"_penalty_per_year_df"},
                             !._penalty_hires_df =
                                 Some([PENALTY |-> penalty,
                                       nep_limited_gf |-> nep.nep_limited_gf,
                                       FLAG_CRD |-> nep.limited.FLAG_CRD,
                                       FLAG_nCRD |-> nep.limited.FLAG_nCRD]),
                             !._penalty_per_year_df = Some(table),
                             !._gapfilled_df = Some(nep.nep_limited_gf),
                             !._gf_results = Some([target_col |-> "nep_limited"]),
                             !._penalty_min_year = Some(idxmin(table))]
    /\ UNCHANGED notNEP

\* _calculate_penalty 197: penalty_df['VPD_f'] raises KeyError when the
\* threshold variable of the record has another name; calculate_penalty is
\* left and no result is assigned
calculate_penalty_raises ==
    /\ nep.pc = "penalty"
    /\ nep.vpd_col # "VPD_f"
    /\ nep' = [nep EXCEPT !.pc = "error"]
    /\ UNCHANGED notNEP

\* ------------------------------------------------- result properties
Accessors == {"penalty_hires_df", "penalty_per_year_df", "penalty_min_year",
              "gapfilled_df", "gf_results"}
AttributeOf == [penalty_hires_df |-> "_penalty_hires_df",
                penalty_per_year_df |-> "_penalty_per_year_df",
                penalty_min_year |-> "_penalty_min_year",
                gapfilled_df |-> "_gapfilled_df",
                gf_results |-> "_gf_results"]
NoGapfilledData == "Exception: No gap-filled data found"

\* the property `name` of the object: it reads the attribute behind it (an
\* attribute that was never assigned cannot be read), tests it and returns it
accessor(self, name) ==
    IF AttributeOf[name] \notin self.attrs
    THEN [name |-> name, raises |-> "AttributeError", value |-> None]
    ELSE IF self[AttributeOf[name]] = None
    THEN [name |-> name, raises |-> NoGapfilledData, value |-> None]
    ELSE [name |-> name, raises |-> "", value |-> self[AttributeOf[name]]]

\* a caller reads one of the result properties
read_accessor(name) ==
    /\ nep.pc \in {"constructed", "calculated"}
    /\ nep' = [nep EXCEPT !.read = Some(accessor(nep, name))]
    /\ UNCHANGED notNEP

\* ------------------------------------------------- plot_cumulatives(year)
SENTINEL == -9999
abs(x) == IF x < 0 THEN 0 - x ELSE x

\* nep_penalty.py 539-554: the percentage as the fraction num / den
penalty_perc(obs, pot) ==
    IF obs > 0 /\ pot > 0 /\ pot > obs
    THEN [num |-> (pot - obs) * PERCENT, den |-> pot]
    ELSE IF obs < 0 /\ pot < 0 /\ pot < obs
    THEN [num |-> (pot - obs) * PERCENT, den |-> abs(pot)]
    ELSE [num |-> SENTINEL, den |-> 1]

plot_raise(year, name) ==
    [year |-> year, raises |-> name, obs |-> NaN, pot |-> NaN, penalty |-> NaN,
     penalty_perc |-> None]

\* plot_cumulatives(ax, year=year) 521-554: the numbers of the year
plot_cumulatives_year(self, year) ==
    LET hires == accessor(self, "penalty_hires_df")
        table == accessor(self, "penalty_per_year_df")
    IN  IF hires.raises # "" THEN plot_raise(year, hires.raises)
        ELSE IF table.raises # "" THEN plot_raise(year, table.raises)
        ELSE IF table.value[1][year].num_CRDs = NaN THEN plot_raise(year, "ValueError")
        ELSE [year |-> year, raises |-> "",
              obs |-> table.value[1][year].nep,
              pot |-> table.value[1][year].nep_limited_gf,
              penalty |-> table.value[1][year].PENALTY,
              penalty_perc |-> Some(penalty_perc(table.value[1][year].nep,
                                                 table.value[1][year].nep_limited_gf))]

plot_cumulatives(year) ==
    /\ nep.pc \in {"constructed", "calculated"}
    /\ nep' = [nep EXCEPT !.plot = Some(plot_cumulatives_year(nep, year))]
    /\ UNCHANGED notNEP

NextPenalty ==
    \/ NextLimit
    \/ calculate_penalty_gapfill
    \/ calculate_penalty_results
    \/ calculate_penalty_raises
    \/ \E name \in Accessors : read_accessor(name)
    \/ \E year \in Years(nep) : plot_cumulatives(year)

\* the records given to the penalty calculation: every calendar day is in a
\* year of its own, the threshold variable and the flux vary by day
DayVpd == {2, 3, 4}
DayFlux == {<<0 - 4, 0 - 4>>, <<2, NaN>>, <<2, 2>>}
InputPenalty(dayvpd, dayflux) ==
    [vpd |-> [t \in NepIndex |-> dayvpd[CalendarDay(t)]],
     ta |-> [t \in NepIndex |-> TaOf(t)],
     swin |-> [t \in NepIndex |-> 1],
     rh |-> [t \in NepIndex |-> 50],
     nep |-> [t \in NepIndex |-> dayflux[CalendarDay(t)][Time(t)]]]

InitPenalty ==
    /\ NoSession
    /\ flagtest = NoFlagtest
    /\ setup = NoSetup
    /\ \E dayvpd \in [1..NDays -> DayVpd], dayflux \in [1..NDays -> DayFlux],
          vpd_col \in {"VPD_f", "VPD"} :
          nep = [NEPpenalty_init(InputPenalty(dayvpd, dayflux),
                                 [t \in NepIndex |-> penalty_start_month_default],
                                 [t \in NepIndex |-> FirstYear + CalendarDay(t) - 1],
                                 SetMax(Thresholds), SetMin(Thresholds))
                    EXCEPT !.vpd_col = vpd_col]

SpecPenalty == InitPenalty /\ [][NextPenalty]_vars

\* C17: a group with more than one distinct value in 'units' or in 'varname'
\* makes the construction fail before the field's records are grouped by
\* time resolution or harmonized and before an accumulator is created.
C17_ValidatedBeforeHarmonization ==
    (setup.pc # "none" /\ (setup.n_units > 1 \/ setup.n_varname > 1)) =>
        /\ setup.pc \in {"_check_units", "_check_fields", "error"}
        /\ setup.pc = "error" => setup.raised_by \in {"_check_units", "_check_fields"}
        /\ ~Called("_make_timeres_groups")
        /\ ~Called("_harmonize_timeresolution")
        /\ setup.data_detailed = setup.input
        /\ ~setup.session

\* a group with one unit and two variable names has failed in _check_fields
C17_Witness ==
    /\ setup.pc = "error"
    /\ setup.n_units = 1
    /\ setup.n_varname > 1
    /\ setup.raised_by = "_check_fields"
    /\ Called("_check_units")

\* C19: reading results_qcf before calc_qcf() has been called, or
\* resampled_detailed before resample() has been called, raises an error
\* instead of returning an empty placeholder.
C19_SessionAccessorsGuarded ==
    /\ (lastop.op = "results_qcf" /\ \A f \in FieldSet : results_qcf[f] = EmptyFrame)
           => lastop.raised
    /\ lastop.op = "resampled_detailed" => lastop.raised

\* ------------------------------------------------- claims on the limiter
\* _limit_crd_data has returned its frame
LimitedReady == nep.pc # "none" /\ nep.limited.FLAG_CRD # None
InWindow(t) == in_penalty_months(nep, t)
DailyMax(t) == SetMaxOr({nep.vpd[u] : u \in {u \in NepIndex : Day(u) = Day(t)
                                                  /\ nep.vpd[u] # NaN}}, NaN)

C20_ContradictoryThresholdsRejected ==
    (nep.pc # "none" /\ nep.thres_ncrd_lower > nep.thres_crd) =>
        /\ nep.limited.FLAG_CRD = None
        /\ nep.limited.FLAG_nCRD = None

\* ------------------------------------------------- claims on the penalty
Calculated == nep.pc = "calculated"
Plotted == nep.pc # "none" /\ nep.plot # None /\ nep.plot[1].raises = ""
PerYear == nep._penalty_per_year_df[1]
Hires == nep._penalty_hires_df[1]

\* C12: for a year in which the observed and the potential sum are both
\* negative and the potential sum is the less negative one, plot_cumulatives
\* reports penalty = potential - observed and
\* penalty_perc = (potential - observed) / |potential| * 100, not the sentinel;
\* observed = -150 and potential = -115 give 3500 / 115 = 30.43 percent.
C12_PenaltyPercBothNegative ==
    Plotted =>
        /\ (nep.plot[1].obs < 0 /\ nep.plot[1].pot < 0
                /\ nep.plot[1].pot > nep.plot[1].obs)
               => /\ nep.plot[1].penalty = nep.plot[1].pot - nep.plot[1].obs
                  /\ nep.plot[1].penalty_perc[1].num # SENTINEL
                  /\ nep.plot[1].penalty_perc[1].num * abs(nep.plot[1].pot)
                         = (nep.plot[1].pot - nep.plot[1].obs) * PERCENT
                               * nep.plot[1].penalty_perc[1].den
        /\ penalty_perc(0 - 150, 0 - 115).num * 115
               = 35 * PERCENT * penalty_perc(0 - 150, 0 - 115).den

\* C13: at every timestep PENALTY is the potential (limited and gap-filled)
\* flux minus the observed flux, and for every year the summed penalty is
\* the summed potential flux minus the summed observed flux, also when a
\* series has missing values.
C13_PenaltyIsPotentialMinusObserved ==
    Calculated =>
        /\ \A t \in NepIndex :
              Hires.PENALTY[t] =
                  IF Hires.nep_limited_gf[t] = NaN \/ nep.nep[t] = NaN THEN NaN
                  ELSE Hires.nep_limited_gf[t] - nep.nep[t]
        /\ \A y \in Years(nep) :
              PerYear[y].PENALTY = PerYear[y].nep_limited_gf - PerYear[y].nep

\* C14: after calculate_penalty, penalty_min_year is a year of the per-year
\* table whose summed penalty is less than or equal to the summed penalty of
\* every other year, and the property penalty_min_year returns it.
C14_MinYearIsArgmin ==
    Calculated =>
        /\ nep._penalty_min_year[1] \in DOMAIN PerYear
        /\ \A y \in DOMAIN PerYear :
              PerYear[nep._penalty_min_year[1]].PENALTY <= PerYear[y].PENALTY
        /\ accessor(nep, "penalty_min_year").raises = ""
        /\ accessor(nep, "penalty_min_year").value = nep._penalty_min_year

\* the year of the minimum is not the first year, and the penalties differ
C14_Witness ==
    /\ Calculated
    /\ nep._penalty_min_year[1] # FirstYear
    /\ PerYear[nep._penalty_min_year[1]].PENALTY < PerYear[FirstYear].PENALTY
    /\ nep.read # None
    /\ nep.read[1].name = "penalty_min_year"
    /\ nep.read[1].value = nep._penalty_min_year

\* C18: reading a result property before calculate_penalty has completed
\* raises the 'No gap-filled data found' error; after calculate_penalty the
\* property returns the computed result.
C18_AccessorsGuarded ==
    (nep.pc # "none" /\ nep.read # None) =>
        /\ nep.pc = "constructed" => nep.read[1].raises = NoGapfilledData
        /\ nep.pc = "calculated" =>
              /\ nep.read[1].raises = ""
              /\ nep.read[1].value = nep[AttributeOf[nep.read[1].name]]

\* ------------------------------------------------- claims on the tests
AbsLimClasses == {"AbsoluteLimits", "AbsoluteLimitsDaytimeNighttime"}
DaytimeNighttimeClasses == {"AbsoluteLimitsDaytimeNighttime",
                            "LocalOutlierFactorDaytimeNighttime"}
\* the [min, max] range that applies to record t of an absolute-limits test
RangeOf(t) ==
    IF flagtest.cls = "AbsoluteLimits" \/ t \in flagtest.is_daytime
    THEN flagtest.minmax[1] ELSE flagtest.minmax[2]
InRange(t) == /\ flagtest.series[t] >= RangeOf(t)[1]
              /\ flagtest.series[t] <= RangeOf(t)[2]

\* C15: the absolute-limits tests return disjoint sets: no record is both ok
\* and rejected, a non-missing value is rejected iff it lies outside its
\* range and ok iff it lies inside it, a missing value is in neither set.
C15_OkRejectedDisjoint ==
    (flagtest.pc = "done" /\ flagtest.cls \in AbsLimClasses) =>
        /\ flagtest.ok \cap flagtest.rejected = {}
        /\ \A t \in DOMAIN flagtest.series :
              IF flagtest.series[t] = NaN
              THEN t \notin flagtest.ok /\ t \notin flagtest.rejected
              ELSE /\ t \in flagtest.rejected <=> ~InRange(t)
                   /\ t \in flagtest.ok <=> InRange(t)

\* the partition (day or night) of the test's input without non-missing value
EmptyPartitions ==
    {p \in {flagtest.is_daytime, flagtest.is_nighttime} :
        NonMissing(flagtest.series) \cap p = {}}
\* the other partition could be evaluated alone by the test
OtherEvaluable(p) ==
    flagtest.cls = "LocalOutlierFactorDaytimeNighttime"
        => Cardinality(NonMissing(flagtest.series) \ p) >= LOF_MIN_SAMPLES

\* C16: when one partition of a daytime/nighttime test has no non-missing
\* value the test completes without an error, that partition contributes no
\* rejected record, and the other partition is flagged as if evaluated alone.
C16_EmptyPartitionCompletes ==
    (flagtest.pc # "none" /\ flagtest.cls \in DaytimeNighttimeClasses) =>
        \A p \in EmptyPartitions :
            OtherEvaluable(p) =>
                /\ flagtest.pc # "error"
                /\ (flagtest.pc = "done"
                        /\ flagtest.cls = "AbsoluteLimitsDaytimeNighttime") =>
                       /\ flagtest.rejected \cap p = {}
                       /\ flagtest.rejected =
                              {t \in NonMissing(flagtest.series) : ~InRange(t)}
                /\ (flagtest.pc = "done"
                        /\ flagtest.cls = "LocalOutlierFactorDaytimeNighttime") =>
                       \A t \in p : flagtest.overall_flag[t] # FLAG_REJECTED

\* C22: when calculate_penalty is called with a random_state, every call of
\* the gap-filling collaborator made during that call (limited VPD, limited
\* radiation, limited flux) receives that seed.
C22_EveryGapfillSeeded ==
    (nep.pc # "none" /\ nep.random_state # None) =>
        \A i \in 1..Len(nep.gapfill_calls) :
            nep.gapfill_calls[i].random_state = nep.random_state

\* the stage that follows each stage of calculate_penalty
NextStage == [constructed |-> "limit:template"] @@
    ("limit:template" :> "limit:ta" @@ "limit:ta" :> "limit:vpd" @@
     "limit:vpd" :> "limit:swin" @@ "limit:swin" :> "limit:nep" @@
     "limit:nep" :> "limit:flags" @@ "limit:flags" :> "limited" @@
     "limited" :> "penalty" @@ "penalty" :> "calculated")
LimitedColumns == {"nep_limited", "ta_limited", "vpd_limited_gf", "swin_limited_gf"}
Has(col) == nep.pc # "none" /\ nep.limited[col] # None
CallsMade == IF nep.pc = "none" THEN 0 ELSE Len(nep.gapfill_calls)

\* what the stages done so far have left behind
StagesInOrder ==
    /\ Has("ta_limited") => Has("template")
    /\ Has("vpd_limited") =>
          /\ Has("ta_limited")
          /\ nep.limited.vpd_limited = calc_vpd_from_ta_rh(nep.limited.ta_limited, nep.rh)
    /\ CallsMade >= 1 =>
          /\ nep.gapfill_calls[1].target_col = "vpd_limited"
          /\ nep.gapfill_calls[1].features = {"swin", "ta_limited"}
          /\ Has("vpd_limited_gf")
    /\ CallsMade >= 2 =>
          /\ nep.gapfill_calls[2].target_col = "swin_limited"
          /\ nep.gapfill_calls[2].features = {"ta_limited"}
          /\ Has("swin_limited_gf")
    /\ Has("nep_limited") => Has("swin_limited_gf") /\ Has("vpd_limited_gf")
    /\ Has("FLAG_CRD") => Has("nep_limited")
    /\ CallsMade >= 3 =>
          /\ Has("FLAG_CRD")
          /\ nep.gapfill_calls[3].target_col = "nep_limited"
          /\ nep.gapfill_calls[3].features \subseteq LimitedColumns
    /\ CallsMade <= 3

\* C23: the limiter runs template, temperature, VPD, radiation, flux and
\* flags in this order, no stage skipped or repeated; the VPD is recomputed
\* from the limited temperature, the radiation is gap-filled with the limited
\* temperature as feature, the flux is removed last, and the final flux
\* gap-filling has only limited or limited-and-gap-filled predictors.
C23_StagesInFixedOrder ==
    /\ []StagesInOrder
    /\ [][(nep.pc # "none" /\ nep'.pc # nep.pc) =>
              \/ nep.pc \in DOMAIN NextStage /\ nep'.pc = NextStage[nep.pc]
              \/ nep.pc = "penalty" /\ nep'.pc = "error"]_vars

\* the whole calculation has run on a record with a critical day whose
\* temperature was replaced
C23_Witness ==
    /\ Calculated
    /\ Len(nep.gapfill_calls) = 3
    /\ nep.limited.crds_ix # {}
    /\ \E t \in nep.limited.crds_ix :
          /\ nep.limited.ta_limited[t] # NaN
          /\ nep.limited.ta_limited[t] # nep.ta[t]

\* the calendar days of year y whose maximum of the threshold variable
\* exceeds thres_crd, whatever their month
DaysAbove(y) ==
    {d \in {CalendarDay(t) : t \in RecordsOf(nep, y)} :
        \E t \in NepIndex : CalendarDay(t) = d /\ gt(nep.vpd[t], nep.thres_crd)}

\* C25: for every year, num_CRDs of the per-year table is the number of days
\* of the year whose daily maximum of the configured threshold variable
\* (vpd_col) exceeds thres_crd, counted over all months.
C25_NumCRDsCountsDaysAbove ==
    /\ nep.pc # "error"
    /\ Calculated =>
          \A y \in Years(nep) : PerYear[y].num_CRDs = Cardinality(DaysAbove(y))

\* C26: for every record that is not on a critical day the limited
\* temperature is the original temperature (a missing value stays missing);
\* for every record on a critical day it is the near-critical diel-template
\* value of its time of day, missing when there is no template value.
C26_OnlyCriticalDaysLimited ==
    Has("ta_limited") =>
        \A t \in NepIndex :
            IF t \in nep.limited.crds_ix
            THEN nep.limited.ta_limited[t] = nep.limited.template[t]
            ELSE nep.limited.ta_limited[t] = nep.ta[t]

\* C21: no operation changes the caller's input data: while and after a
\* session is set up, the caller's frame of the field has the columns, rows
\* and values it had when the constructor was called
C21_CallerInputUnchanged ==
    setup.pc # "none" => setup.caller = setup.input

\* the frame that _harmonize_timeresolution was called with, its group of
\* the target frequency and the upsampled frame of a coarser group
Filtered == filter_data(TaggedInput, setup.used_freqs)
Finest == Group(Filtered, setup.targetfreq)
Upsampled(freq) == upsample(Group(Filtered, freq), freq, setup.targetfreq)
Coarser == GroupKeys(Filtered) \ {setup.targetfreq}

\* C24: after the frequency groups are merged, a timestamp with a value in
\* the group of the target frequency keeps that value, also where an
\* upsampled coarser group has a row for it; a value in the merged frame that
\* is not the value of the finest group is the value of an upsampled group
\* at a timestamp where the finest group has none; and no timestamp occurs
\* twice in the merged index
C24_FinestGroupWins ==
    setup.pc = "_sanitize_timestamp" =>
        LET out == setup.data_detailed
        IN  /\ \A t \in DOMAIN Finest :
                  /\ t \in DOMAIN out
                  /\ Finest[t].val # NaN => out[t].val = Finest[t].val
            /\ \A t \in DOMAIN out :
                  out[t].val # NaN =>
                      \/ t \in DOMAIN Finest /\ out[t].val = Finest[t].val
                      \/ /\ t \in DOMAIN Finest => Finest[t].val = NaN
                         /\ \E freq \in Coarser :
                               /\ t \in DOMAIN Upsampled(freq)
                               /\ Upsampled(freq)[t].val = out[t].val
            /\ \E ix \in {harmonize_index(<<>>, Filtered, GroupKeys(Filtered),
                                          setup.targetfreq)} :
                  /\ DOMAIN ix = DOMAIN out
                  /\ \A t \in DOMAIN ix : ix[t] = 1

\* C24 witness: the groups are merged, a timestamp with a value in the finest
\* group also has a row in the upsampled coarser group, and another
\* timestamp takes its value from the upsampled group
C24_Witness ==
    /\ setup.pc = "_sanitize_timestamp"
    /\ \E freq \in Coarser :
          /\ \E t \in DOMAIN Finest \cap DOMAIN Upsampled(freq) : Finest[t].val # NaN
          /\ \E t \in DOMAIN Upsampled(freq) \ DOMAIN Finest :
                /\ Upsampled(freq)[t].val # NaN
                /\ setup.data_detailed[t].val = Upsampled(freq)[t].val

\* C27: corrections survive later steps: an addflag() or calc_qcf() that
\* follows a correction leaves every value of the cleaned series as the
\* correction left it, or removes it as rejected; it never brings back the
\* value from before the correction
C27_CorrectionsSurvive ==
    [][(/\ lastop.op = "correction_setto_max_threshold"
        /\ lastop'.op \in {"addflag", "calc_qcf"}) =>
           \A f \in FieldSet : \A t \in Index :
               series_hires_cleaned'[f][t] \in {NaN, series_hires_cleaned[f][t]}]_vars

\* ============================ StepwiseMeteoScreeningDb.__init__: `fields`
\* A field name is a str, that is a sequence of characters; the argument
\* `fields` is a str or a list of names.  An argument is the record of its
\* type and the names given: the one name of a str, the elements of a list.
FieldNameSet == {<<"T">>, <<"A">>, <<"T", "A">>}
FieldsArgs ==
    {[type |-> "str", names |-> <<name>>] : name \in FieldNameSet}
        \cup {[type |-> "list", names |-> l] :
                 l \in {<<>>} \cup [1..1 -> FieldNameSet] \cup [1..2 -> FieldNameSet]}

\* isinstance(fields, list)
isinstance_list(x) == x.type = "list"

\* list(fields) of a str: the list of its characters, each a str of length one
list_of_str(x) == [i \in 1..Len(x.names[1]) |-> <<x.names[1][i]>>]

\* self.fields = fields if isinstance(fields, list) else list(fields)
init_fields ==
    /\ setup.pc = "__init__"
    /\ setup' = [setup EXCEPT !.pc = "_setup_fields",
                              !.fields = IF isinstance_list(setup.arg)
                                         THEN setup.arg.names
                                         ELSE list_of_str(setup.arg)]
    /\ UNCHANGED <<sessionVars, flagtest, nep>>

\* for field in self.fields: data_detailed = self.data_detailed[field]
\* raises KeyError for a name that is no key of the mapping
setup_fields_lookup ==
    /\ setup.pc = "_setup_fields"
    /\ setup.i <= Len(setup.fields)
    /\ setup' = IF setup.fields[setup.i] \in setup.keys
                THEN [setup EXCEPT !.i = @ + 1]
                ELSE [setup EXCEPT !.pc = "error", !.raised = "KeyError"]
    /\ UNCHANGED <<sessionVars, flagtest, nep>>

\* every field is set up: the constructor returns the session
init_return ==
    /\ setup.pc = "_setup_fields"
    /\ setup.i > Len(setup.fields)
    /\ setup' = [setup EXCEPT !.pc = "ready"]
    /\ UNCHANGED <<sessionVars, flagtest, nep>>

\* the constructor is called with `fields` and a mapping with the given keys
InitFieldsArg ==
    /\ NoSession
    /\ flagtest = NoFlagtest
    /\ nep = NoNEP
    /\ \E arg \in FieldsArgs, keys \in SUBSET FieldNameSet :
          setup = [pc |-> "__init__", arg |-> arg, keys |-> keys,
                   fields |-> <<>>, i |-> 1, raised |-> ""]

NextFieldsArg == init_fields \/ setup_fields_lookup \/ init_return

SpecFieldsArg == InitFieldsArg /\ [][NextFieldsArg]_vars

\* C28: a single field name given as a str sets up the same field list as
\* the one-element list with that name: self.fields is the list of exactly
\* that name
C28_StrIsOneField ==
    (setup.pc \in {"_setup_fields", "ready", "error"} /\ ~isinstance_list(setup.arg)) =>
        setup.fields = setup.arg.names

\* ================================================= FluxQualityFlagsEddyPro
\* A frame with named columns is the sequence of its columns, so that two
\* columns of the same name can be told apart; dfin is the record of the
\* flux column and the diagnostic columns of the EddyPro file.
MaxCols == 4             \* columns of results before the object stops taking tests
L2Index == {1, 2}        \* timestamps of dfin
Column(name, values) == [name |-> name, values |-> values]
ColumnNames(df) == {df[i].name : i \in 1..Len(df)}

\* the flag of one EddyPro test: a series on the index of df, named after the
\* test, taken from the diagnostic column the test reads
eddyproflag(test, df) ==
    Column(test,
           [t \in L2Index |->
               CASE test = "FLAG_SSITC" -> df.SSITC[t]
                 [] test = "FLAG_AOA" -> df.AOA[t]
                 [] test = "FLAG_SPIKES" -> df.VM97[t]
                 [] test = "FLAG_DROPOUT" -> FLAG_REJECTED - df.VM97[t]])

\* flags_vm97_eddypro_*_tests: the frame of the flags of the selected tests
flags_vm97_eddypro_tests(df, spikes, dropout) ==
    (IF spikes THEN <<eddyproflag("FLAG_SPIKES", df)>> ELSE <<>>)
        \o (IF dropout THEN <<eddyproflag("FLAG_DROPOUT", df)>> ELSE <<>>)

\* df[name] = flag: every column of that name is replaced, a new name is
\* appended as the last column
setitem(df, flag) ==
    IF flag.name \in ColumnNames(df)
    THEN [i \in 1..Len(df) |-> IF df[i].name = flag.name THEN flag ELSE df[i]]
    ELSE Append(df, flag)

\* pd.concat([a, b], axis=1) of frames on the same index
concat_axis1(a, b) == a \o b

\* FluxQualityFlagsEddyPro(dfin, fluxcol, ...)
FluxQualityFlagsEddyPro_init(dfin) ==
    [pc       |-> "level2",
     dfin     |-> dfin,
     _results |-> <<Column("FLUX", dfin.FLUX)>>,
     last     |-> "__init__"]

\* ssitc_test()
ssitc_test ==
    /\ flagtest.pc = "level2"
    /\ Len(flagtest._results) < MaxCols
    /\ flagtest' = [flagtest EXCEPT
                       !._results = setitem(@, eddyproflag("FLAG_SSITC", flagtest.dfin)),
                       !.last = "ssitc_test"]
    /\ UNCHANGED <<sessionVars, setup, nep>>

\* angle_of_attack_test()
angle_of_attack_test ==
    /\ flagtest.pc = "level2"
    /\ Len(flagtest._results) < MaxCols
    /\ flagtest' = [flagtest EXCEPT
                       !._results = setitem(@, eddyproflag("FLAG_AOA", flagtest.dfin)),
                       !.last = "angle_of_attack_test"]
    /\ UNCHANGED <<sessionVars, setup, nep>>

\* raw_data_screening_vm97_tests(spikes, dropout)
raw_data_screening_vm97_tests(spikes, dropout) ==
    /\ flagtest.pc = "level2"
    /\ \E flags \in {flags_vm97_eddypro_tests(flagtest.dfin, spikes, dropout)} :
          /\ Len(flagtest._results) + Len(flags) <= MaxCols
          /\ flagtest' = [flagtest EXCEPT
                             !._results = concat_axis1(@, flags),
                             !.last = "raw_data_screening_vm97_tests"]
    /\ UNCHANGED <<sessionVars, setup, nep>>

InitLevel2 ==
    /\ NoSession
    /\ setup = NoSetup
    /\ nep = NoNEP
    /\ \E flux \in [L2Index -> {NaN, 2}] :
       \E ssitc \in [L2Index -> {FLAG_OK, FLAG_REJECTED}],
          aoa \in [L2Index -> {FLAG_OK, FLAG_REJECTED}],
          vm97 \in [L2Index -> {FLAG_OK, FLAG_REJECTED}] :
          flagtest = FluxQualityFlagsEddyPro_init(
                         [FLUX |-> flux, SSITC |-> ssitc, AOA |-> aoa, VM97 |-> vm97])

NextLevel2 ==
    \/ ssitc_test
    \/ angle_of_attack_test
    \/ \E spikes \in BOOLEAN, dropout \in BOOLEAN :
          raw_data_screening_vm97_tests(spikes, dropout)

SpecLevel2 == InitLevel2 /\ [][NextLevel2]_vars

\* C29: the flag table stays well formed under any sequence of test calls:
\* its first column is the unchanged flux column, every column is on the
\* index of the input, a test leaves the columns of other tests as they
\* were, and no column name occurs twice, also when a test is called again
C29_FlagTableWellFormed ==
    flagtest.pc = "level2" =>
        \E r \in {flagtest._results} :
            /\ r[1] = Column("FLUX", flagtest.dfin.FLUX)
            /\ \A i \in 1..Len(r) :
                  /\ DOMAIN r[i].values = L2Index
                  /\ r[i].name # "FLUX" => r[i] = eddyproflag(r[i].name, flagtest.dfin)
            /\ \A i \in 1..Len(r) : \A j \in 1..Len(r) :
                  r[i].name = r[j].name => i = j

\* ===================== NEPpenalty.plot_critical_hours: the bootstrap loop
MaxBootstraps == 3       \* largest fit_n_bootstraps a caller passes
MIN_BOOTSTRAPS == 2      \* if fit_n_bootstraps < 2: fit_n_bootstraps = 2
PenaltyYears == {1, 2}   \* rows of penalty_vs_hh_thr

\* penalty_vs_hh_thr.copy() and penalty_vs_hh_thr.sample(n=len, replace=True):
\* the rows the fit is run on
original_data == [i \in PenaltyYears |-> i]
sample_replace == [PenaltyYears -> PenaltyYears]

\* plot_critical_hours(fit_n_bootstraps=...) up to the loop; fits_original
\* says whether BinFitterCP returns for the original data or raises
plot_critical_hours_init(fit_n_bootstraps, fits_original) ==
    [pc               |-> "while",
     arg              |-> fit_n_bootstraps,
     fit_n_bootstraps |-> IF fit_n_bootstraps < MIN_BOOTSTRAPS THEN MIN_BOOTSTRAPS
                          ELSE fit_n_bootstraps,
     fits_original    |-> fits_original,
     n_bts_successful |-> 0,
     bts_df           |-> <<>>,
     bts_fit_results  |-> <<>>]

\* while n_bts_successful < fit_n_bootstraps: the data of the next run is
\* taken, the original data for run zero
bootstrap_while ==
    /\ nep.pc = "while"
    /\ IF nep.n_bts_successful < nep.fit_n_bootstraps
       THEN \E bts_df \in IF nep.n_bts_successful = 0 THEN {original_data}
                           ELSE sample_replace :
               nep' = [nep EXCEPT !.pc = "try", !.bts_df = bts_df]
       ELSE nep' = [nep EXCEPT !.pc = "done"]
    /\ UNCHANGED notNEP

\* the fit returns: its result is stored under the key n_bts_successful
bootstrap_fit_succeeds ==
    /\ nep.pc = "try"
    /\ nep.bts_df = original_data => nep.fits_original
    /\ nep' = [nep EXCEPT !.pc = "while",
                          !.bts_fit_results =
                              [k \in DOMAIN @ \cup {nep.n_bts_successful} |->
                                  IF k = nep.n_bts_successful THEN nep.bts_df ELSE @[k]],
                          !.n_bts_successful = @ + 1]
    /\ UNCHANGED notNEP

\* the fit raises: except: pass, and the loop tests its condition again
bootstrap_fit_fails ==
    /\ nep.pc = "try"
    /\ nep.bts_df = original_data => ~nep.fits_original
    /\ nep' = [nep EXCEPT !.pc = "while"]
    /\ UNCHANGED notNEP

InitBootstrap ==
    /\ NoSession
    /\ flagtest = NoFlagtest
    /\ setup = NoSetup
    /\ \E fit_n_bootstraps \in 0..MaxBootstraps, fits_original \in BOOLEAN :
          nep = plot_critical_hours_init(fit_n_bootstraps, fits_original)

NextBootstrap == bootstrap_while \/ bootstrap_fit_succeeds \/ bootstrap_fit_fails

\* the loop keeps running, and a resampled run that can succeed does so at
\* some attempt
SpecBootstrap ==
    /\ InitBootstrap /\ [][NextBootstrap]_vars
    /\ WF_vars(NextBootstrap)
    /\ SF_vars(bootstrap_fit_succeeds)

\* C30: the bootstrap fit loop terminates, also when the fit on the original
\* data fails on every attempt
C30_BootstrapLoopTerminates == <>(nep.pc = "done")

====
